---- MODULE Spec2Model ----
(***************************************************************************)
(* Model of tgdrive/rclone-vfs: the "link" backend (URL registry, metadata *)
(* resolver, Fs/Object adapter), the cache-key helpers StripURL and        *)
(* ShardedPath, and the vfsproxy Handler (hash cache, Serve, ServeFile).   *)
(* Strings are TLA+ strings; TLC evaluates Len, \o and SubSeq on them, so  *)
(* URLs, keys and paths are handled character by character as in the Go    *)
(* code.                                                                   *)
(***************************************************************************)
EXTENDS Integers, Sequences, FiniteSets, TLC

(***************************************************************************)
(* String helpers (Go package strings / path).                             *)
(***************************************************************************)
Char(s, i) == SubSeq(s, i, i)

\* strings.Index for a one-character separator: first position, 0 if none.
IndexOf(s, c) ==
    IF \E i \in 1..Len(s) : Char(s, i) = c
    THEN CHOOSE i \in 1..Len(s) :
            /\ Char(s, i) = c
            /\ \A j \in 1..(i - 1) : Char(s, j) # c
    ELSE 0

\* strings.LastIndex for a one-character separator.
LastIndexOf(s, c) ==
    IF \E i \in 1..Len(s) : Char(s, i) = c
    THEN CHOOSE i \in 1..Len(s) :
            /\ Char(s, i) = c
            /\ \A j \in (i + 1)..Len(s) : Char(s, j) # c
    ELSE 0

\* strings.Count for a one-character separator.
CountOf(s, c) == Cardinality({i \in 1..Len(s) : Char(s, i) = c})

HasPrefix(s, p) == Len(s) >= Len(p) /\ SubSeq(s, 1, Len(p)) = p

\* strings.Cut: the text before and after the first c.
CutBefore(s, c) == IF IndexOf(s, c) = 0 THEN s ELSE SubSeq(s, 1, IndexOf(s, c) - 1)
CutAfter(s, c) == IF IndexOf(s, c) = 0 THEN "" ELSE SubSeq(s, IndexOf(s, c) + 1, Len(s))

Letters == {"a", "b", "c", "d", "e", "f", "g", "h", "i", "j", "k", "l", "m",
            "n", "o", "p", "q", "r", "s", "t", "u", "v", "w", "x", "y", "z"}
Digits == {"0", "1", "2", "3", "4", "5", "6", "7", "8", "9"}
HexChars == Digits \cup {"a", "b", "c", "d", "e", "f"}

(***************************************************************************)
(* net/url as used by StripURL: Parse into the fields StripURL clears and  *)
(* String() reads, and String() itself.  A parsed URL is a record          *)
(*   [Scheme, Opaque, HasUser, User, Host, Path, ForceQuery, RawQuery,     *)
(*    Fragment];  ParseURL yields ParseError when url.Parse returns err.   *)
(***************************************************************************)
ParseError == [err |-> TRUE]

\* url.getScheme: the position of the ':' ending a scheme, 0 if no scheme,
\* -1 for "missing protocol scheme" (a leading ':').
SchemeEnd(s) ==
    LET stop == {i \in 1..Len(s) :
                    ~ \/ Char(s, i) \in Letters
                      \/ (i > 1 /\ Char(s, i) \in Digits \cup {"+", "-", "."})}
        first == IF stop = {} THEN 0
                 ELSE CHOOSE i \in stop : \A j \in stop : i <= j
    IN IF first = 0 THEN 0
       ELSE IF Char(s, first) # ":" THEN 0
       ELSE IF first = 1 THEN -1
       ELSE first

\* url.unescape's validity test: every '%' is followed by two hex digits.
ValidEscapes(s) ==
    \A i \in 1..Len(s) :
        Char(s, i) = "%" =>
            /\ i + 2 <= Len(s)
            /\ Char(s, i + 1) \in HexChars
            /\ Char(s, i + 2) \in HexChars

\* url.parse once scheme, query and fragment are cut off: the authority and
\* the path of rest.
ParseHier(scheme, rest, force, query, frag, hasAuth, authority, path, at) ==
    IF ~HasPrefix(rest, "/") /\ scheme # ""
    THEN [err |-> FALSE, Scheme |-> scheme, Opaque |-> rest, HasUser |-> FALSE,
          User |-> "", Host |-> "", Path |-> "", ForceQuery |-> force,
          RawQuery |-> query, Fragment |-> frag]
    ELSE IF ~HasPrefix(rest, "/") /\ IndexOf(CutBefore(rest, "/"), ":") # 0
    THEN ParseError
    ELSE IF ~ValidEscapes(path) \/ ~ValidEscapes(frag) THEN ParseError
    ELSE IF hasAuth /\ ~ValidEscapes(authority) THEN ParseError
    ELSE [err |-> FALSE, Scheme |-> scheme, Opaque |-> "",
          HasUser |-> hasAuth /\ at # 0,
          User |-> IF hasAuth /\ at # 0 THEN SubSeq(authority, 1, at - 1) ELSE "",
          Host |-> IF ~hasAuth THEN ""
                   ELSE IF at = 0 THEN authority
                   ELSE SubSeq(authority, at + 1, Len(authority)),
          Path |-> path, ForceQuery |-> force, RawQuery |-> query,
          Fragment |-> frag]

\* The authority ("//" up to the next '/') is split from the path.
ParseAuthority(scheme, rest, force, query, frag, hasAuth, auth) ==
    ParseHier(scheme, rest, force, query, frag, hasAuth,
              IF hasAuth THEN CutBefore(auth, "/") ELSE "",
              IF ~hasAuth THEN rest
              ELSE IF IndexOf(auth, "/") = 0 THEN ""
              ELSE SubSeq(auth, IndexOf(auth, "/"), Len(auth)),
              IF hasAuth THEN LastIndexOf(CutBefore(auth, "/"), "@") ELSE 0)

\* The query is cut off: a lone trailing '?' sets ForceQuery.
ParseQuery(scheme, rest0, frag, force) ==
    ParseAuthority(scheme,
                   IF force THEN SubSeq(rest0, 1, Len(rest0) - 1)
                   ELSE CutBefore(rest0, "?"),
                   force,
                   IF force THEN "" ELSE CutAfter(rest0, "?"),
                   frag,
                   /\ HasPrefix(rest0, "//")
                   /\ (scheme # "" \/ ~HasPrefix(rest0, "///")),
                   CutBefore(SubSeq(rest0, 3, Len(rest0)), "?"))

\* The scheme is cut off.
ParseScheme(u, frag, se) ==
    IF se = -1 THEN ParseError
    ELSE IF se > 0
    THEN ParseQuery(SubSeq(u, 1, se - 1), SubSeq(u, se + 1, Len(u)), frag,
                    /\ se < Len(u)
                    /\ Char(u, Len(u)) = "?"
                    /\ CountOf(SubSeq(u, se + 1, Len(u)), "?") = 1)
    ELSE ParseQuery("", u, frag,
                    /\ Len(u) > 0
                    /\ Char(u, Len(u)) = "?"
                    /\ CountOf(u, "?") = 1)

\* url.Parse: the fragment is cut off first.
ParseURL(raw) ==
    ParseScheme(CutBefore(raw, "#"), CutAfter(raw, "#"), SchemeEnd(CutBefore(raw, "#")))

\* (*url.URL).String()
URLAuthority(p) ==
    IF p.Scheme # "" \/ p.Host # "" \/ p.HasUser
    THEN (IF p.Host # "" \/ p.Path # "" \/ p.HasUser THEN "//" ELSE "")
         \o (IF p.HasUser THEN p.User \o "@" ELSE "")
         \o p.Host
    ELSE ""

URLPath(p, prefix) ==
    prefix
    \o (IF p.Path # "" /\ Char(p.Path, 1) # "/" /\ p.Host # "" THEN "/" ELSE "")
    \o (IF prefix = "" /\ p.Host = "" /\ IndexOf(CutBefore(p.Path, "/"), ":") # 0
        THEN "./" ELSE "")
    \o p.Path

URLString(p) ==
    (IF p.Scheme # "" THEN p.Scheme \o ":" ELSE "")
    \o (IF p.Opaque # "" THEN p.Opaque
        ELSE URLPath(p, URLAuthority(p)))
    \o (IF p.ForceQuery \/ p.RawQuery # "" THEN "?" \o p.RawQuery ELSE "")
    \o (IF p.Fragment # "" THEN "#" \o p.Fragment ELSE "")

(***************************************************************************)
(* backend/link/strip.go                                                   *)
(***************************************************************************)
\* The fields StripURL clears in the parsed URL.
StripFields(parsedURL, stripQuery, stripDomain) ==
    [parsedURL EXCEPT
        !.RawQuery = IF stripQuery THEN "" ELSE @,
        !.Scheme = IF stripDomain THEN "" ELSE @,
        !.Host = IF stripDomain THEN "" ELSE @,
        !.HasUser = IF stripDomain THEN FALSE ELSE @,
        !.User = IF stripDomain THEN "" ELSE @,
        !.Fragment = IF stripDomain THEN "" ELSE @]

StripParsed(u, parsedURL, stripQuery, stripDomain) ==
    IF parsedURL.err THEN u
    ELSE URLString(StripFields(parsedURL, stripQuery, stripDomain))

StripURL(u, stripQuery, stripDomain) ==
    IF ~stripQuery /\ ~stripDomain THEN u
    ELSE StripParsed(u, ParseURL(u), stripQuery, stripDomain)

\* path.Join of the parts of ShardedPath (none of them empty).
RECURSIVE JoinParts(_)
JoinParts(parts) ==
    IF Len(parts) = 0 THEN ""
    ELSE IF Len(parts) = 1 THEN parts[1]
    ELSE parts[1] \o "/" \o JoinParts(Tail(parts))

ShardedPath(fileHash, level) ==
    IF level <= 0 \/ Len(fileHash) < 2 THEN fileHash
    ELSE LET n == CHOOSE k \in 0..level :
                    /\ 2 * k <= Len(fileHash)
                    /\ (k = level \/ 2 * (k + 1) > Len(fileHash))
             parts == [i \in 1..n |-> SubSeq(fileHash, 2 * i - 1, 2 * i)]
         IN JoinParts(parts \o <<fileHash>>)

\* path.Base and path.Dir on the clean, non-empty paths the model uses.
PathBase(p) ==
    IF p = "" THEN "."
    ELSE IF LastIndexOf(p, "/") = 0 THEN p
    ELSE SubSeq(p, LastIndexOf(p, "/") + 1, Len(p))

PathDir(p) ==
    IF LastIndexOf(p, "/") = 0 THEN "."
    ELSE SubSeq(p, 1, LastIndexOf(p, "/") - 1)

(***************************************************************************)
(* crypto/md5 + fmt.Sprintf("%x") of getFileHash, scaled down: a digest of *)
(* the bytes of the key URL rendered as HashHexLen lowercase hex digits    *)
(* (md5 renders 32).  The digest is a multiplicative rolling hash over the *)
(* character codes, so it depends on every character of its input.         *)
(***************************************************************************)
HashHexLen == 4

Alphabet == "abcdefghijklmnopqrstuvwxyz0123456789:/?#@.%=&-_"
HexDigits == "0123456789abcdef"

Ord(c) == IF IndexOf(Alphabet, c) = 0 THEN 63 ELSE IndexOf(Alphabet, c)

RECURSIVE Pow16(_)
Pow16(n) == IF n = 0 THEN 1 ELSE 16 * Pow16(n - 1)

RECURSIVE HashBytes(_, _, _)
HashBytes(s, i, h) ==
    IF i > Len(s) THEN h
    ELSE HashBytes(s, i + 1, (h * 37 + Ord(Char(s, i))) % Pow16(HashHexLen))

RECURSIVE HexOf(_, _)
HexOf(n, width) ==
    IF width = 0 THEN ""
    ELSE HexOf(n \div 16, width - 1) \o Char(HexDigits, (n % 16) + 1)

Digest(keyURL) == HexOf(HashBytes(keyURL, 1, 7), HashHexLen)

(***************************************************************************)
(* Bounds and the values the operations are called with.                   *)
(***************************************************************************)
MaxTime == 2      \* time.Now() takes the values 1..MaxTime
MaxCalls == 2     \* registration calls recorded per identifier
MaxTries == 2     \* attempts of one pacer.Call (rclone's low level retries)
MaxFetches == 2   \* metadata requests the origin answers per URL

\* time.Time{} (an entry stored by Register has no modTime).
ZeroTime == 0

Procs == {1, 2}
Servers == {1}

ApiRemotes == {"h1", "ab12"}
StatPaths == {"sh/h1", "ab/ab12", "zz"}

U1 == "https://a.io/f?t=1"
U2 == "https://b.io/g"
\* U1 with another token in its query.
UQ == "https://a.io/f?t=2"

\* The raw target URLs getFileHash and Serve are called with.
Targets == {U1, UQ}

\* URLs that differ from U1 in the query only (UQ, UF: a bare '?') and in
\* scheme, user, host, port and fragment only (UD).
UF == "https://a.io/f?"
UD == "http://u@b.io:81/f?t=1#x"
URLPool == {U1, UQ, UF, UD}

\* http.Header values captured from a request: header name -> values.
HPlain == [Accept |-> <<"a", "b">>]
HRange == [Accept |-> <<"a">>, Range |-> <<"bytes=5-9">>]

\* The inbound requests: method and headers.
Requests == {[method |-> "GET", header |-> HPlain],
             [method |-> "HEAD", header |-> HPlain],
             [method |-> "GET", header |-> HRange]}

RegArgs == {<<U1, HPlain>>, <<U2, HRange>>}
Sizes == {0, 1024}

\* What the origin may answer to one request (err: a transport error).
Resp200 == [err |-> FALSE, status |-> 200, clen |-> 1024, crange |-> "", lastMod |-> ZeroTime]
Resp200NoLen == [err |-> FALSE, status |-> 200, clen |-> -1, crange |-> "", lastMod |-> ZeroTime]
Resp206 == [err |-> FALSE, status |-> 206, clen |-> 1, crange |-> "bytes 0-0/2048", lastMod |-> 1]
Resp404 == [err |-> FALSE, status |-> 404, clen |-> 0, crange |-> "", lastMod |-> ZeroTime]
Resp503 == [err |-> FALSE, status |-> 503, clen |-> 0, crange |-> "", lastMod |-> ZeroTime]
RespNetErr == [err |-> TRUE, status |-> 0, clen |-> 0, crange |-> "", lastMod |-> ZeroTime]
Responses == {Resp200, Resp200NoLen, Resp206, Resp404, Resp503, RespNetErr}
Healthy(resp) == ~resp.err /\ resp.status \in {200, 206}

VARIABLES
    opt,        \* Options of the Handler and its Fs: stripQuery, stripDomain, shardLevel
                \* (and of the Caddy module: upstream, passthrough, hasNext)
    urlMap,     \* link.urlMap: remote identifier -> *entry
    now,        \* the wall clock read by time.Now()
    hashCache,  \* Handler.hashCache: raw target URL -> hash
    mu,         \* Handler.mu (sync.RWMutex): the writer and the readers holding it
    proc,       \* one record per goroutine: where it is in the call it runs
    metaReqs,   \* observer: URL -> metadata requests (Range: bytes=0-0) the origin got
    openReqs,   \* observer: URLs of the content requests the origin got
    originOk,   \* observer: the origin answered every request so far with 200/206
    regLog,     \* observer: remote identifier -> op and result of the calls made on it
    lastCall,   \* observer: the latest registration call, with its arguments
    nDigest     \* observer: raw target URL -> md5 computations done for it

vars == <<opt, urlMap, now, hashCache, mu, proc, metaReqs, openReqs, originOk,
          regLog, lastCall, nDigest>>

\* Reading a Go map, or a counter kept per key, at a key that may be absent.
Get(m, k, default) == IF k \in DOMAIN m THEN m[k] ELSE default
Put(m, k, v) == (k :> v) @@ m

(***************************************************************************)
(* The URL registry (urlMap, entry, Register, RegisterWithSize, Load).     *)
(***************************************************************************)
NewEntry(url, header, size, modTime) ==
    [url |-> url, header |-> header, size |-> size, modTime |-> modTime]

\* LoadOrStore that, for a key that is present, keeps the url of the stored
\* entry and takes the other fields of the new one.
LoadOrStoreMerges(m, key, value) ==
    [m |-> IF key \in DOMAIN m
           THEN Put(m, key, [value EXCEPT !.url = m[key].url])
           ELSE Put(m, key, value),
     loaded |-> key \in DOMAIN m]

\* LoadOrStore over a map that holds one entry only: storing a new key puts
\* the others out.
LoadOrStoreEvicts(m, key, value) ==
    [m |-> IF key \in DOMAIN m THEN m ELSE Put(<<>>, key, value),
     loaded |-> key \in DOMAIN m]

\* sync.Map.LoadOrStore: the map afterwards and whether the key was loaded.
LoadOrStore(m, key, value) ==
    [m |-> IF key \in DOMAIN m THEN m ELSE Put(m, key, value),
     loaded |-> key \in DOMAIN m]

\* Register with its result inverted (return loaded).
RegisterReturnsLoaded(m, remote, url, header) ==
    LET r == LoadOrStore(m, remote, NewEntry(url, header, 0, ZeroTime))
    IN [m |-> r.m, isNew |-> r.loaded]

\* Register storing unconditionally (urlMap.Store in place of LoadOrStore).
RegisterStores(m, remote, url, header) ==
    [m |-> Put(m, remote, NewEntry(url, header, 0, ZeroTime)),
     isNew |-> remote \notin DOMAIN m]

\* Register: the registry afterwards and the value returned (isNew).
Register(m, remote, url, header) ==
    LET r == LoadOrStore(m, remote, NewEntry(url, header, 0, ZeroTime))
    IN [m |-> r.m, isNew |-> ~r.loaded]

\* RegisterWithSize, called when time.Now() is t.
RegisterWithSize(m, remote, url, header, size, t) ==
    LET r == LoadOrStore(m, remote, NewEntry(url, header, size, t))
    IN [m |-> r.m, isNew |-> ~r.loaded]

\* Load: the URL and whether the identifier is registered.
Load(m, remote) ==
    IF remote \in DOMAIN m THEN <<m[remote].url, TRUE>> ELSE <<"", FALSE>>

NoRet == [kind |-> "none"]
NoEntry == [kind |-> "no entry"]
NoCall == [op |-> "none"]
NoReq == [method |-> "", header |-> <<>>]
NoResp == [err |-> FALSE, status |-> 0]
IdleProc == [pc |-> "idle", op |-> "none", url |-> "", req |-> NoReq, remote |-> "",
             e |-> NoEntry, tries |-> 0, resp |-> NoResp, key |-> "", ret |-> NoRet,
             bodies |-> 0, caller |-> "none", cancelled |-> FALSE,
             stats |-> 0, opens |-> 0, wh |-> <<>>, options |-> <<>>,
             up |-> <<>>]

Init ==
    /\ opt = [stripQuery |-> FALSE, stripDomain |-> FALSE, shardLevel |-> 1]
    /\ urlMap = <<>>
    /\ now = 1
    /\ hashCache = <<>>
    /\ mu = [writer |-> 0, readers |-> {}]
    /\ proc = [p \in Procs |-> IdleProc]
    /\ metaReqs = <<>>
    /\ openReqs = {}
    /\ originOk = TRUE
    /\ regLog = <<>>
    /\ lastCall = NoCall
    /\ nDigest = <<>>

\* The clock advances.
Tick ==
    /\ now < MaxTime
    /\ now' = now + 1
    /\ UNCHANGED <<opt, urlMap, hashCache, mu, proc, metaReqs, openReqs, originOk,
                   regLog, lastCall, nDigest>>

\* The observers' record of a registration call on remote.
Observe(logged, remote, call) ==
    IF logged
    THEN /\ Len(Get(regLog, remote, <<>>)) < MaxCalls
         /\ regLog' = Put(regLog, remote,
                          Append(Get(regLog, remote, <<>>),
                                 [op |-> call.op, ret |-> call.ret]))
         /\ lastCall' = call
    ELSE UNCHANGED <<regLog, lastCall>>

\* A caller of the package calls Register(remote, url, header).
CallRegister(logged) ==
    \E remote \in ApiRemotes, a \in RegArgs :
        LET r == Register(urlMap, remote, a[1], a[2])
        IN /\ urlMap' = r.m
           /\ Observe(logged, remote,
                      [op |-> "Register", remote |-> remote, url |-> a[1],
                       header |-> a[2], size |-> 0, time |-> now, ret |-> r.isNew,
                       before |-> Get(urlMap, remote, NoEntry)])
           /\ UNCHANGED <<opt, now, hashCache, mu, proc, metaReqs, openReqs,
                          originOk, nDigest>>

\* A caller of the package calls RegisterWithSize(remote, url, header, size).
CallRegisterWithSize(logged) ==
    \E remote \in ApiRemotes, a \in RegArgs, size \in Sizes :
        LET r == RegisterWithSize(urlMap, remote, a[1], a[2], size, now)
        IN /\ urlMap' = r.m
           /\ Observe(logged, remote,
                      [op |-> "RegisterWithSize", remote |-> remote, url |-> a[1],
                       header |-> a[2], size |-> size, time |-> now, ret |-> r.isNew,
                       before |-> Get(urlMap, remote, NoEntry)])
           /\ UNCHANGED <<opt, now, hashCache, mu, proc, metaReqs, openReqs,
                          originOk, nDigest>>

(***************************************************************************)
(* Concurrent callers of the registry: a call builds its entry, then       *)
(* reaches the sync.Map.                                                   *)
(***************************************************************************)
\* The calls on remote that built their entry and have not stored it yet.
Pending(remote) ==
    {p \in Procs : proc[p].pc = "rStore" /\ proc[p].remote = remote}

\* The identifier the concurrent callers contend for, and the size they pass.
RaceRemotes == {"h1"}
RaceSizes == {1024}

\* Register or RegisterWithSize is entered by goroutine p and evaluates
\* &entry{...}, reading the clock for RegisterWithSize.
RegisterEnter(p) ==
    \E remote \in RaceRemotes, a \in RegArgs, size \in RaceSizes, withSize \in BOOLEAN :
        /\ proc[p].pc = "idle"
        /\ Len(Get(regLog, remote, <<>>)) + Cardinality(Pending(remote)) < MaxCalls
        /\ proc' = [proc EXCEPT ![p] =
              [IdleProc EXCEPT
                  !.op = IF withSize THEN "RegisterWithSize" ELSE "Register",
                  !.remote = remote,
                  !.e = IF withSize THEN NewEntry(a[1], a[2], size, now)
                        ELSE NewEntry(a[1], a[2], 0, ZeroTime),
                  !.pc = "rStore"]]
        /\ UNCHANGED <<opt, urlMap, now, hashCache, mu, metaReqs, openReqs,
                       originOk, regLog, lastCall, nDigest>>

\* The call of goroutine p reaches urlMap.LoadOrStore and returns !loaded.
RegisterStore(p) ==
    LET pr == proc[p]
        r == IF pr.op = "RegisterWithSize"
             THEN RegisterWithSize(urlMap, pr.remote, pr.e.url, pr.e.header,
                                   pr.e.size, pr.e.modTime)
             ELSE Register(urlMap, pr.remote, pr.e.url, pr.e.header)
    IN /\ pr.pc = "rStore"
       /\ urlMap' = r.m
       /\ regLog' = Put(regLog, pr.remote,
                        Append(Get(regLog, pr.remote, <<>>),
                               [op |-> pr.op, ret |-> r.isNew, e |-> pr.e]))
       /\ proc' = [proc EXCEPT ![p] =
              [IdleProc EXCEPT !.ret = [kind |-> "isNew", isNew |-> r.isNew]]]
       /\ UNCHANGED <<opt, now, hashCache, mu, metaReqs, openReqs, originOk,
                      lastCall, nDigest>>

\* A lookup by goroutine p (urlMap.Load in Load, NewObject, Open): the entry
\* it gets for remote, if any.
LookupEntry(p) ==
    \E remote \in RaceRemotes :
        /\ proc[p].pc = "idle"
        /\ proc' = [proc EXCEPT ![p] =
              [IdleProc EXCEPT !.ret = [kind |-> "loaded", remote |-> remote,
                                        e |-> Get(urlMap, remote, NoEntry)]]]
        /\ UNCHANGED <<opt, urlMap, now, hashCache, mu, metaReqs, openReqs,
                       originOk, regLog, lastCall, nDigest>>

NextRace ==
    \/ Tick
    \/ \E p \in Procs : RegisterEnter(p) \/ RegisterStore(p) \/ LookupEntry(p)
SpecRace == Init /\ [][NextRace]_vars


(***************************************************************************)
(* The metadata resolver and Fs.NewObject.                                 *)
(***************************************************************************)
RetryErrorCodes == {429, 500, 502, 503, 504, 509}

\* shouldRetry retrying every attempt that did not end in 200 or 206.
ShouldRetryAnyFailure(resp) == resp.err \/ resp.status \notin {200, 206}

\* shouldRetry(ctx, resp, err) for a live context: transport errors and the
\* statuses of retryErrorCodes are retried.
ShouldRetry(resp) == resp.err \/ (~resp.err /\ resp.status \in RetryErrorCodes)

DigitVal(c) == IndexOf("0123456789", c) - 1

\* fmt's %d from position i of s: the position after the digits and their value.
RECURSIVE ScanInt(_, _, _)
ScanInt(s, i, acc) ==
    IF i <= Len(s) /\ Char(s, i) \in Digits
    THEN ScanInt(s, i + 1, acc * 10 + DigitVal(Char(s, i)))
    ELSE [next |-> i, val |-> acc]

\* fmt's %d with its optional sign, from position i of s: the position after
\* the number, its value, and whether it had a digit.
ScanSigned(s, i) ==
    LET signed == i <= Len(s) /\ Char(s, i) \in {"-", "+"}
        from == IF signed THEN i + 1 ELSE i
        r == ScanInt(s, from, 0)
    IN [next |-> r.next, digits |-> r.next > from,
        val |-> IF signed /\ Char(s, i) = "-" THEN 0 - r.val ELSE r.val]

\* fmt.Sscanf(contentRange, "bytes %d-%d/%d", &rangeStart, &end, &total)
ScanContentRange(cr) ==
    LET a == ScanSigned(cr, 7)
        b == ScanSigned(cr, a.next + 1)
        c == ScanSigned(cr, b.next + 1)
    IN IF /\ HasPrefix(cr, "bytes ")
          /\ a.digits /\ a.next <= Len(cr) /\ Char(cr, a.next) = "-"
          /\ b.digits /\ b.next <= Len(cr) /\ Char(cr, b.next) = "/"
          /\ c.digits
       THEN [ok |-> TRUE, total |-> c.val]
       ELSE [ok |-> FALSE, total |-> 0]

\* NewObject without its fast path.
SizeKnownNever(e) == FALSE

\* NewObject taking every size but 0 for a pre-provided one.
SizeKnownNonZero(e) == e.size # 0

\* NewObject's test for a pre-provided size.
SizeKnown(e) == e.size > 0

ErrRet(remote, e, tries, err) ==
    [kind |-> "err", err |-> err, remote |-> remote, e |-> e, tries |-> tries]
\* "metadata fetch failed: status %d"
StatusErrRet(remote, e, tries, status) ==
    [kind |-> "err", err |-> "status", remote |-> remote, e |-> e, tries |-> tries,
     status |-> status]
ObjRet(remote, e, tries, size, modTime) ==
    [kind |-> "obj", remote |-> remote, url |-> e.url, size |-> size,
     modTime |-> modTime, e |-> e, tries |-> tries]

\* fetchMetadata after pacer.Call ended with response resp (retry: the last
\* attempt still asked for a retry), at time t: what NewObject returns.
FetchMetadata(remote, e, tries, resp, retry, t) ==
    LET cr == ScanContentRange(resp.crange)
        size == IF resp.status = 206 /\ resp.crange # "" /\ cr.ok
                THEN cr.total ELSE resp.clen
        modTime == IF resp.lastMod # ZeroTime THEN resp.lastMod ELSE t
    IN IF retry THEN ErrRet(remote, e, tries, "retries exhausted")
       ELSE IF resp.err THEN ErrRet(remote, e, tries, "transport")
       ELSE IF resp.status # 200 /\ resp.status # 206
       THEN StatusErrRet(remote, e, tries, resp.status)
       ELSE IF size < 0 THEN ErrRet(remote, e, tries, "unknown size")
       ELSE ObjRet(remote, e, tries, size, modTime)

\* The goroutine pr after its call returned ret: a direct caller is idle again
\* and keeps the result, Serve goes on with it.
Returned(pr, ret) ==
    IF pr.op = "Serve"
    THEN [pr EXCEPT !.pc = "sStatted", !.ret = ret, !.e = NoEntry, !.tries = 0,
                    !.resp = NoResp, !.up = <<>>]
    ELSE [IdleProc EXCEPT !.ret = ret, !.bodies = pr.bodies]

\* http.Header.Set(k, v): the header k has the one value v.
HeaderSet(h, k, v) == [x \in DOMAIN h \cup {k} |-> IF x = k THEN <<v>> ELSE h[x]]

\* for _, v := range vv { req.Header.Set(k, v) }, from the i-th value on.
RECURSIVE SetValues(_, _, _, _)
SetValues(h, k, vv, i) ==
    IF i > Len(vv) THEN h ELSE SetValues(HeaderSet(h, k, vv[i]), k, vv, i + 1)

\* for k, vv := range header { ... }: the headers of the request once the
\* names in keys are gone through (a map is ranged over in any order; the
\* names are different, so the order does not show).
RECURSIVE ReplayHeader(_, _, _)
ReplayHeader(h, header, keys) ==
    IF keys = {} THEN h
    ELSE LET k == CHOOSE x \in keys : TRUE
         IN ReplayHeader(SetValues(h, k, header[k], 1), header, keys \ {k})

\* The headers of the request fetchMetadata sends for an entry registered with
\* header: the entry's headers, then Range: bytes=0-0.
FetchRequestHeader(header) ==
    HeaderSet(ReplayHeader(<<>>, header, DOMAIN header), "Range", "bytes=0-0")

\* for k, v := range fs.OpenOptionHeaders(options) { req.Header.Set(k, v) },
\* the options a sequence of <<name, value>>, from the i-th on.
RECURSIVE ApplyOptions(_, _, _)
ApplyOptions(h, options, i) ==
    IF i > Len(options) THEN h
    ELSE ApplyOptions(HeaderSet(h, options[i][1], options[i][2]), options, i + 1)

\* The headers of the request Object.Open sends for the object at remote: the
\* headers of the entry the registry m has for its last segment, if it has
\* one, then those of the options.
OpenRequestHeader(m, remote, options) ==
    LET originalRemote == PathBase(remote)
        stored == IF originalRemote \in DOMAIN m
                  THEN ReplayHeader(<<>>, m[originalRemote].header,
                                    DOMAIN m[originalRemote].header)
                  ELSE <<>>
    IN ApplyOptions(stored, options, 1)

\* The options the VFS layer opens an object with: none (the whole object), or
\* a fs.RangeOption, which comes out as the header Range.
OpenOptions == {<<>>, << <<"Range", "bytes=0-">> >>}

\* The response bodies a goroutine holds open (proc[p].bodies): client.Do
\* that returned a response adds its body, resp.Body.Close() releases one.
Opened(n, resp) == IF resp.err THEN n ELSE n + 1
Closed(n) == n - 1

\* The open bodies when fetchMetadata returns after the last attempt was
\* answered by resp: pacer.Call hands back that attempt's error, and on nil
\* the deferred resp.Body.Close() releases the body of the last response.
BodiesAfterFetch(n, resp) ==
    IF resp.err THEN n ELSE Closed(Opened(n, resp))

\* The open bodies when Object.Open returns after the last attempt was
\* answered by resp: the body of a 200/206 is returned to the caller, that
\* of any other status is closed.
BodiesAfterOpen(n, resp) ==
    IF resp.err \/ Healthy(resp) THEN Opened(n, resp) ELSE Closed(Opened(n, resp))

\* NewObject looking the whole path up in the registry.
NewObjectByPath(pr, remote) ==
    IF remote \notin DOMAIN urlMap
    THEN Returned(pr, ErrRet(remote, NoEntry, 0, "not found"))
    ELSE LET e == urlMap[remote]
         IN IF SizeKnown(e)
            THEN Returned(pr, ObjRet(remote, e, 0, e.size, e.modTime))
            ELSE [pr EXCEPT !.pc = "nFetch", !.remote = remote, !.e = e, !.tries = 0,
                            !.up = FetchRequestHeader(e.header)]

\* Fs.NewObject(remote) up to the metadata fetch: the goroutine pr afterwards.
NewObject(pr, remote) ==
    LET originalRemote == PathBase(remote)
    IN IF originalRemote \notin DOMAIN urlMap
       THEN Returned(pr, ErrRet(remote, NoEntry, 0, "not found"))
       ELSE LET e == urlMap[originalRemote]
            IN IF SizeKnown(e)
               THEN Returned(pr, ObjRet(remote, e, 0, e.size, e.modTime))
               ELSE [pr EXCEPT !.pc = "nFetch", !.remote = remote, !.e = e,
                               !.tries = 0, !.up = FetchRequestHeader(e.header)]

\* Fs.NewObject(remote) is called by goroutine p.
NewObjectCall(p, remote) ==
    /\ proc[p].pc = "idle"
    /\ proc' = [proc EXCEPT
                   ![p] = NewObject([IdleProc EXCEPT !.op = "NewObject"], remote)]
    /\ UNCHANGED <<opt, urlMap, now, hashCache, mu, metaReqs, openReqs,
                   originOk, regLog, lastCall, nDigest>>

\* A caller (the VFS layer, a test) calls Fs.NewObject(remote).
CallNewObject(p) == \E remote \in StatPaths : NewObjectCall(p, remote)

\* Paths that end in the same segment under different directories, and paths
\* that have an identifier as a directory only.
LeafPaths == {"h1", "sh/h1", "a/b/h1", "zz", "h1/zz"}

\* A caller calls Fs.NewObject on one of them.
CallNewObjectLeaf(p) == \E remote \in LeafPaths : NewObjectCall(p, remote)

\* shouldRetry without its test of the context.
ShouldRetryIgnoresCtx(ctxErr, resp) == ShouldRetry(resp)

\* shouldRetry(ctx, resp, err): no retry once the context is cancelled or
\* timed out (fserrors.ContextError), else by the error and the status.
ShouldRetryCtx(ctxErr, resp) == ~ctxErr /\ ShouldRetry(resp)

\* A pacer that repeats the call as long as it asks for a retry.
PacerRetriesForever(retry, tries) == retry

\* pacer.Call after an attempt, the tries-th, that asked for retry or not: it
\* makes another one while the retries of the pacer are not used up.
PacerRetries(retry, tries) == retry /\ tries < MaxTries

\* A resolver that stores the size it resolved in the entry.
RegistryStoresResolved(m, remote, ret) ==
    IF ret.kind = "obj" /\ PathBase(remote) \in DOMAIN m
    THEN [m EXCEPT ![PathBase(remote)].size = ret.size]
    ELSE m

\* The registry m once NewObject(remote) has resolved ret through
\* fetchMetadata: the Object is built from the result, the entry is left as
\* it is.
RegistryAfterResolve(m, remote, ret) == m

\* One attempt of fetchMetadata's pacer.Call: GET e.url with Range: bytes=0-0,
\* answered by resp; the pacer repeats it or fetchMetadata finishes.
FetchAttemptOf(p, resp) ==
    LET pr == proc[p]
        tries == pr.tries + 1
    IN /\ pr.pc = "nFetch"
       /\ Get(metaReqs, pr.e.url, 0) < MaxFetches
       /\ metaReqs' = Put(metaReqs, pr.e.url, Get(metaReqs, pr.e.url, 0) + 1)
       /\ originOk' = (originOk /\ Healthy(resp))
       /\ proc' = [proc EXCEPT ![p] =
             IF PacerRetries(ShouldRetryCtx(pr.cancelled, resp), tries)
             THEN [pr EXCEPT !.tries = tries,
                             !.resp = [err |-> resp.err, status |-> resp.status],
                             !.bodies = Opened(pr.bodies, resp)]
             ELSE IF pr.cancelled
             THEN Returned([pr EXCEPT !.bodies = Opened(pr.bodies, resp)],
                           ErrRet(pr.remote, pr.e, tries, "context canceled"))
             ELSE Returned([pr EXCEPT !.bodies = BodiesAfterFetch(pr.bodies, resp)],
                           FetchMetadata(pr.remote, pr.e, tries, resp,
                                         ShouldRetry(resp), now))]
       /\ urlMap' = IF PacerRetries(ShouldRetryCtx(pr.cancelled, resp), tries)
                       \/ pr.cancelled
                    THEN urlMap
                    ELSE RegistryAfterResolve(urlMap, pr.remote,
                             FetchMetadata(pr.remote, pr.e, tries, resp,
                                           ShouldRetry(resp), now))
       /\ UNCHANGED <<opt, now, hashCache, mu, openReqs, regLog, lastCall, nDigest>>

\* An attempt against an origin that may answer anything.
FetchAttempt(p) == \E resp \in Responses : FetchAttemptOf(p, resp)

\* The retryable failures: a transport error and the statuses retried.
RetryableResponses ==
    {RespNetErr} \cup {[Resp503 EXCEPT !.status = c] : c \in RetryErrorCodes}

\* An attempt against an origin that answers every request with a retryable
\* failure.
FetchAttemptFailing(p) == \E resp \in RetryableResponses : FetchAttemptOf(p, resp)

\* Answers to the ranged request that state the length in other ways: a 206
\* without a Content-Range, with one that has no total, and without any length.
Resp206NoRange == [err |-> FALSE, status |-> 206, clen |-> 1, crange |-> "", lastMod |-> ZeroTime]
Resp206Star == [err |-> FALSE, status |-> 206, clen |-> 1, crange |-> "bytes 0-0/*", lastMod |-> ZeroTime]
Resp206NoLen == [err |-> FALSE, status |-> 206, clen |-> -1, crange |-> "", lastMod |-> ZeroTime]
SizeResponses ==
    {Resp200, Resp200NoLen, Resp206, Resp206NoRange, Resp206Star, Resp206NoLen, Resp404}

\* fetchMetadata on its own: the request is answered by resp at once, and the
\* caller keeps the answer and what fetchMetadata returned.
ResolveSize(p) ==
    \E resp \in SizeResponses :
        /\ proc' = [proc EXCEPT ![p] =
              [IdleProc EXCEPT !.resp = resp,
                               !.ret = FetchMetadata("h1", NewEntry(U1, HPlain, 0, ZeroTime),
                                                     1, resp, FALSE, now)]]
        /\ UNCHANGED <<opt, urlMap, now, hashCache, mu, metaReqs, openReqs,
                       originOk, regLog, lastCall, nDigest>>

NextSize == Tick \/ \E p \in Procs : ResolveSize(p)
SpecSize == Init /\ [][NextSize]_vars

(***************************************************************************)
(* ShardedPath on its own.                                                 *)
(***************************************************************************)
ShardKeys == {"", "a", "abc", "ab12", "ab12cd34"}
ShardLevels == -1..3

\* A caller calls ShardedPath(fileHash, level) and keeps the result.
CallShardedPath(p) ==
    \E fileHash \in ShardKeys, level \in ShardLevels :
        /\ proc' = [proc EXCEPT ![p] =
              [IdleProc EXCEPT !.ret = [kind |-> "path", key |-> fileHash,
                                        level |-> level,
                                        path |-> ShardedPath(fileHash, level)]]]
        /\ UNCHANGED <<opt, urlMap, now, hashCache, mu, metaReqs, openReqs,
                       originOk, regLog, lastCall, nDigest>>

NextShard == \E p \in Procs : CallShardedPath(p)
SpecShard == Init /\ [][NextShard]_vars

(***************************************************************************)
(* StripURL on its own.                                                    *)
(***************************************************************************)
\* A URL whose path has a malformed escape: url.Parse fails on it.
UBad == "https://a.io/%zz?t=1"
StripInputs ==
    URLPool \cup {UBad,
                  "https://u:p@example.com/f.txt?q=1#s",
                  "/path/to/file.txt?param=value"}

\* A caller calls StripURL(u, stripQuery, stripDomain) and keeps the result.
CallStripURL(p) ==
    \E u \in StripInputs, stripQuery \in BOOLEAN, stripDomain \in BOOLEAN :
        /\ proc' = [proc EXCEPT ![p] =
              [IdleProc EXCEPT !.ret = [kind |-> "strip", u |-> u,
                                        stripQuery |-> stripQuery,
                                        stripDomain |-> stripDomain,
                                        out |-> StripURL(u, stripQuery, stripDomain)]]]
        /\ UNCHANGED <<opt, urlMap, now, hashCache, mu, metaReqs, openReqs,
                       originOk, regLog, lastCall, nDigest>>

NextStrip == \E p \in Procs : CallStripURL(p)
SpecStrip == Init /\ [][NextStrip]_vars

(***************************************************************************)
(* The mutating operations of Fs and Object.                               *)
(***************************************************************************)
ErrorReadOnly == "link: read only"
MutatingOps == {"Put", "Mkdir", "Rmdir", "SetModTime", "Remove", "Update"}

\* The error each operation returns: Mkdir returns nil, the others
\* errorReadOnly.
MutatingResult(op) == IF op = "Mkdir" THEN "nil" ELSE ErrorReadOnly

\* A caller (the VFS layer) calls the operation op of the Fs or of an Object.
CallMutating(p, op) ==
    /\ proc[p].pc = "idle"
    /\ proc' = [proc EXCEPT ![p] =
                   [IdleProc EXCEPT !.ret = [kind |-> "fsop", op |-> op,
                                             err |-> MutatingResult(op)]]]
    /\ UNCHANGED <<opt, urlMap, now, hashCache, mu, metaReqs, openReqs, originOk,
                   regLog, lastCall, nDigest>>

NextReadOnly ==
    \/ CallRegister(FALSE)
    \/ \E p \in Procs, op \in MutatingOps : CallMutating(p, op)
SpecReadOnly == Init /\ [][NextReadOnly]_vars

(***************************************************************************)
(* Handler.getFileHash: the hash cache behind Handler.mu.                  *)
(***************************************************************************)
\* The key getFileHash computes for targetURL under the options o.
ComputeHash(targetURL, o) == Digest(StripURL(targetURL, o.stripQuery, o.stripDomain))

\* The goroutine pr after getFileHash returned fileHash.
HashReturned(pr, fileHash) ==
    IF pr.op = "Serve"
    THEN [pr EXCEPT !.pc = "sRegister", !.key = fileHash]
    ELSE [IdleProc EXCEPT !.ret = [kind |-> "hash", url |-> pr.url, key |-> fileHash]]

\* The second check without the store: the computed hash is returned only.
StoreHashForgets(cache, targetURL, computedHash) ==
    [cache |-> cache,
     ret |-> IF targetURL \in DOMAIN cache THEN cache[targetURL] ELSE computedHash]

\* A cache of one entry: the store of a new URL puts the others out.
StoreHashEvicts(cache, targetURL, computedHash) ==
    IF targetURL \in DOMAIN cache
    THEN [cache |-> cache, ret |-> cache[targetURL]]
    ELSE [cache |-> Put(<<>>, targetURL, computedHash), ret |-> computedHash]

\* The section of getFileHash under the exclusive lock: the second check, the
\* store, and the value returned.
StoreHash(cache, targetURL, computedHash) ==
    IF targetURL \in DOMAIN cache
    THEN [cache |-> cache, ret |-> cache[targetURL]]
    ELSE [cache |-> Put(cache, targetURL, computedHash), ret |-> computedHash]

\* getFileHash(targetURL) is entered by goroutine p.
GetFileHashCall(p, targetURL) ==
    /\ proc[p].pc = "idle"
    /\ proc' = [proc EXCEPT ![p] = [IdleProc EXCEPT !.op = "getFileHash",
                                                   !.url = targetURL,
                                                   !.pc = "hRLock"]]
    /\ UNCHANGED <<opt, urlMap, now, hashCache, mu, metaReqs, openReqs,
                   originOk, regLog, lastCall, nDigest>>

\* A caller calls getFileHash(targetURL).
CallGetFileHash(p) == \E targetURL \in Targets : GetFileHashCall(p, targetURL)

\* One caller looks up, one after the other, URLs that differ in one component.
ProbeGetFileHash == \E targetURL \in URLPool : GetFileHashCall(1, targetURL)

\* h.mu.RLock()
HashRLock(p) ==
    /\ proc[p].pc = "hRLock"
    /\ mu.writer = 0
    /\ mu' = [mu EXCEPT !.readers = @ \cup {p}]
    /\ proc' = [proc EXCEPT ![p].pc = "hRead"]
    /\ UNCHANGED <<opt, urlMap, now, hashCache, metaReqs, openReqs, originOk,
                   regLog, lastCall, nDigest>>

\* fileHash, exists := h.hashCache[targetURL]; h.mu.RUnlock(); return if exists
HashRead(p) ==
    /\ proc[p].pc = "hRead"
    /\ mu' = [mu EXCEPT !.readers = @ \ {p}]
    /\ proc' = [proc EXCEPT ![p] =
                   IF proc[p].url \in DOMAIN hashCache
                   THEN HashReturned(proc[p], hashCache[proc[p].url])
                   ELSE [proc[p] EXCEPT !.pc = "hCompute"]]
    /\ UNCHANGED <<opt, urlMap, now, hashCache, metaReqs, openReqs, originOk,
                   regLog, lastCall, nDigest>>

\* keyURL := link.StripURL(...); computedHash := %x of md5.Sum(keyURL)
HashCompute(p) ==
    /\ proc[p].pc = "hCompute"
    /\ proc' = [proc EXCEPT ![p].pc = "hLock",
                            ![p].key = ComputeHash(proc[p].url, opt)]
    /\ nDigest' = Put(nDigest, proc[p].url, Get(nDigest, proc[p].url, 0) + 1)
    /\ UNCHANGED <<opt, urlMap, now, hashCache, mu, metaReqs, openReqs, originOk,
                   regLog, lastCall>>

\* h.mu.Lock()
HashLock(p) ==
    /\ proc[p].pc = "hLock"
    /\ mu.writer = 0
    /\ mu.readers = {}
    /\ mu' = [mu EXCEPT !.writer = p]
    /\ proc' = [proc EXCEPT ![p].pc = "hStore"]
    /\ UNCHANGED <<opt, urlMap, now, hashCache, metaReqs, openReqs, originOk,
                   regLog, lastCall, nDigest>>

\* the second check, the store, h.mu.Unlock() and the return
HashStore(p) ==
    LET r == StoreHash(hashCache, proc[p].url, proc[p].key)
    IN /\ proc[p].pc = "hStore"
       /\ hashCache' = r.cache
       /\ mu' = [mu EXCEPT !.writer = 0]
       /\ proc' = [proc EXCEPT ![p] = HashReturned(proc[p], r.ret)]
       /\ UNCHANGED <<opt, urlMap, now, metaReqs, openReqs, originOk, regLog,
                      lastCall, nDigest>>

GetFileHashStep(p) ==
    \/ HashRLock(p)
    \/ HashRead(p)
    \/ HashCompute(p)
    \/ HashLock(p)
    \/ HashStore(p)

(***************************************************************************)
(* Handler.Serve and Handler.ServeFile.                                    *)
(***************************************************************************)
\* A response: its status, whether bytes of the object were written as its
\* body, and for a failure what failed.
HttpRet(status) == [kind |-> "http", status |-> status, cause |-> "", body |-> FALSE]
BodyRet(status) == [kind |-> "http", status |-> status, cause |-> "", body |-> TRUE]

\* The URL Serve registered if it registered the hashed form of the target.
RegisteredStripped(targetURL, o) == StripURL(targetURL, o.stripQuery, o.stripDomain)

\* The URL Serve hands to link.Register: the targetURL it was called with.
RegisteredURL(targetURL, o) == targetURL

\* Serve without its test of the target: every target goes to getFileHash.
ServeEntryUnchecked(targetURL, r) ==
    [IdleProc EXCEPT !.op = "Serve", !.url = targetURL, !.req = r, !.pc = "hRLock"]

\* The goroutine after Serve's test of the target: an empty target is answered
\* 400 and Serve returns, any other goes to getFileHash.
ServeEntry(targetURL, r) ==
    IF targetURL = ""
    THEN [IdleProc EXCEPT !.ret = HttpRet(400)]
    ELSE [IdleProc EXCEPT !.op = "Serve", !.url = targetURL, !.req = r,
                          !.pc = "hRLock"]

\* Serve(w, r, targetURL) is entered by goroutine p.
ServeCall(p, targetURL, r) ==
    /\ proc[p].pc = "idle"
    /\ proc' = [proc EXCEPT ![p] = ServeEntry(targetURL, r)]
    /\ UNCHANGED <<opt, urlMap, now, hashCache, mu, metaReqs, openReqs,
                   originOk, regLog, lastCall, nDigest>>

\* A request for any target comes in.
ServeBegin(p) ==
    \E targetURL \in Targets \cup {""}, r \in Requests : ServeCall(p, targetURL, r)

\* Serve going on to ServeFile without the registration.
ServeRegisterSkips(p) ==
    /\ proc[p].pc = "sRegister"
    /\ proc' = [proc EXCEPT ![p].pc = "sStat",
                            ![p].remote = ShardedPath(proc[p].key, opt.shardLevel)]
    /\ UNCHANGED <<opt, urlMap, now, hashCache, mu, metaReqs, openReqs, originOk,
                   regLog, lastCall, nDigest>>

\* link.Register(fileHash, targetURL, r.Header.Clone()), and the path handed to
\* ServeFile: link.ShardedPath(fileHash, h.shardLevel).
ServeRegister(p) ==
    LET pr == proc[p]
        url == RegisteredURL(pr.url, opt)
        r == Register(urlMap, pr.key, url, pr.req.header)
    IN /\ pr.pc = "sRegister"
       /\ urlMap' = r.m
       /\ lastCall' = [op |-> "Serve", remote |-> pr.key, target |-> pr.url,
                       url |-> url, header |-> pr.req.header, ret |-> r.isNew]
       /\ proc' = [proc EXCEPT ![p].pc = "sStat",
                               ![p].remote = ShardedPath(pr.key, opt.shardLevel)]
       /\ UNCHANGED <<opt, now, hashCache, mu, metaReqs, openReqs, originOk,
                      regLog, nDigest>>

\* The paths ServeFile is called with directly: those of the registered
\* identifiers and one of no identifier.
ServeFilePaths == {ShardedPath(k, opt.shardLevel) : k \in DOMAIN urlMap} \cup {"zz"}

\* ServeFile(w, r, remote) is called directly.
ServeFileBegin(p) ==
    \E remote \in ServeFilePaths, r \in Requests :
        /\ proc[p].pc = "idle"
        /\ proc' = [proc EXCEPT ![p] = [IdleProc EXCEPT !.op = "Serve", !.req = r,
                                                       !.remote = remote,
                                                       !.pc = "sStat"]]
        /\ UNCHANGED <<opt, urlMap, now, hashCache, mu, metaReqs, openReqs,
                       originOk, regLog, lastCall, nDigest>>

\* h.VFS.Stat(remote): the VFS reads the directory of remote through Fs.List,
\* which builds the object with Fs.NewObject.
ServeStat(p) ==
    /\ proc[p].pc = "sStat"
    /\ proc' = [proc EXCEPT ![p] =
          NewObject([proc[p] EXCEPT !.stats = proc[p].stats + 1], proc[p].remote)]
    /\ UNCHANGED <<opt, urlMap, now, hashCache, mu, metaReqs, openReqs, originOk,
                   regLog, lastCall, nDigest>>

\* The response to a request whose Stat found no object, with what failed.
NotFoundRet(err) == [kind |-> "http", status |-> 404, cause |-> err, body |-> FALSE]

\* The answer "Failed to find file: <err>".
StatErrorRet == [kind |-> "http", status |-> 500, cause |-> "stat", body |-> FALSE]

\* ServeFile taking every node for a file and every error for ENOENT.
ServeFileFilesOnly(pr) ==
    IF pr.ret.kind \in {"err", "error"}
    THEN [IdleProc EXCEPT !.ret = NotFoundRet("not found")]
    ELSE IF pr.req.method = "HEAD" THEN [IdleProc EXCEPT !.ret = HttpRet(200)]
    ELSE [pr EXCEPT !.pc = "sOpen", !.tries = 0, !.opens = pr.opens + 1]

\* ServeFile answering a failed Stat as an internal error.
ServeFileStatError500(pr) ==
    IF pr.ret.kind = "err" THEN [IdleProc EXCEPT !.ret = HttpRet(500)]
    ELSE IF pr.req.method = "HEAD" THEN [IdleProc EXCEPT !.ret = HttpRet(200)]
    ELSE [pr EXCEPT !.pc = "sOpen", !.tries = 0, !.opens = pr.opens + 1]

\* ServeFile opening the file for every method.
ServeFileOpensOnHead(pr) ==
    IF pr.ret.kind = "err" THEN [IdleProc EXCEPT !.ret = NotFoundRet(pr.ret.err)]
    ELSE [pr EXCEPT !.pc = "sOpen", !.tries = 0, !.opens = pr.opens + 1]

\* ServeFile after h.VFS.Stat: Fs.List leaves out an object whose NewObject
\* failed, so Stat is ENOENT and the answer 404; another error of Stat is
\* answered 500, a node that is no file or has no DirEntry 404; HEAD is
\* answered from the metadata; GET opens the file.
ServeFileAfterStat(pr) ==
    IF pr.ret.kind = "err" THEN [IdleProc EXCEPT !.ret = NotFoundRet(pr.ret.err)]
    ELSE IF pr.ret.kind = "error" THEN [IdleProc EXCEPT !.ret = StatErrorRet]
    ELSE IF pr.ret.kind = "dir" THEN [IdleProc EXCEPT !.ret = NotFoundRet("not a file")]
    ELSE IF pr.ret.kind = "written"
    THEN [IdleProc EXCEPT !.ret = NotFoundRet("being written")]
    ELSE IF pr.req.method = "HEAD" THEN [IdleProc EXCEPT !.ret = HttpRet(200)]
    ELSE [pr EXCEPT !.pc = "sOpen", !.tries = 0, !.opens = pr.opens + 1]

\* ServeFile returns having answered ret: the goroutine is idle again, and
\* keeps for the observers what the request has done.
Answered(pr, ret) ==
    [IdleProc EXCEPT !.ret = ret, !.bodies = pr.bodies, !.caller = pr.caller,
                     !.stats = pr.stats, !.opens = pr.opens, !.wh = pr.wh]

\* strconv.FormatInt(n, 10).
RECURSIVE FormatInt(_)
FormatInt(n) ==
    IF n < 0 THEN "-" \o FormatInt(0 - n)
    ELSE IF n < 10 THEN Char("0123456789", n + 1)
    ELSE FormatInt(n \div 10) \o Char("0123456789", (n % 10) + 1)

\* ServeFile setting Content-Length whatever the size is.
SetHeadersAlwaysLength(ret) ==
    IF ret.kind # "obj" THEN <<>>
    ELSE ("Content-Length" :> FormatInt(ret.size))
             @@ ("Last-Modified" :> FormatInt(ret.modTime))

\* The headers ServeFile sets on w.Header() once Stat gave it the file ret:
\* Content-Length for a known size, and Last-Modified (the time of the model
\* written in decimal stands for its HTTP date).
SetHeaders(ret) ==
    IF ret.kind # "obj" THEN <<>>
    ELSE (IF ret.size >= 0 THEN "Content-Length" :> FormatInt(ret.size) ELSE <<>>)
             @@ ("Last-Modified" :> FormatInt(ret.modTime))

\* file.Open(os.O_RDONLY) reaching Object.Open(ctx, options...): the request
\* is built before the first attempt is made.
OpenCall(pr, options) ==
    IF pr.pc # "sOpen" THEN pr
    ELSE [pr EXCEPT !.options = options,
                    !.up = OpenRequestHeader(urlMap, pr.remote, options)]

\* ServeFile from the result of Stat to its answer, or to the open of the file.
ServeRespond(p) ==
    \E options \in OpenOptions :
    /\ proc[p].pc = "sStatted"
    /\ proc' = [proc EXCEPT ![p] =
          OpenCall([ServeFileAfterStat(proc[p]) EXCEPT !.bodies = proc[p].bodies,
                                                       !.caller = proc[p].caller,
                                                       !.stats = proc[p].stats,
                                                       !.wh = SetHeaders(proc[p].ret)],
                   options)]
    /\ UNCHANGED <<opt, urlMap, now, hashCache, mu, metaReqs, openReqs,
                   originOk, regLog, lastCall, nDigest>>

\* r.Header.Get("Range"): the first value of the header, "" if there is none.
RangeOf(header) ==
    IF "Range" \in DOMAIN header /\ Len(header.Range) > 0 THEN header.Range[1] ELSE ""

\* http.ServeContent for a file of a known size: the whole file, the range
\* asked for, or 416 for a range that starts behind the end of the file.
ServeContent(header, size) ==
    IF ~HasPrefix(RangeOf(header), "bytes=") THEN BodyRet(200)
    ELSE IF ScanInt(RangeOf(header), 7, 0).val >= size THEN HttpRet(416)
    ELSE BodyRet(206)

\* The answer "Can't use Range: on files of unknown length".
UnknownLengthRet ==
    [kind |-> "http", status |-> 416, cause |-> "unknown length", body |-> FALSE]

\* ServeFile copying the body whatever the request asks for.
ServeFileCopies(pr) ==
    IF pr.ret.size >= 0 THEN ServeContent(pr.req.header, pr.ret.size)
    ELSE BodyRet(200)

\* ServeFile once the file is open: http.ServeContent for a known size; for
\* an unknown size 416 if the request has a Range header, io.Copy if not.
ServeFileAfterOpen(pr) ==
    IF pr.ret.size >= 0 THEN ServeContent(pr.req.header, pr.ret.size)
    ELSE IF RangeOf(pr.req.header) # "" THEN UnknownLengthRet
    ELSE BodyRet(200)

\* The answer "Failed to open file: <err>" for an Open that failed with err
\* after tries attempts.
OpenFailedRet(err, tries) ==
    [kind |-> "http", status |-> 500, cause |-> err, body |-> FALSE, tries |-> tries]

\* ServeFile going back to Stat when file.Open failed.
ServeFileOpenErrorStatsAgain(pr, ret) == [pr EXCEPT !.pc = "sStat", !.tries = 0]

\* ServeFile when file.Open failed: the error is answered (ret) and ServeFile
\* returns.
ServeFileOpenError(pr, ret) == Answered(pr, ret)

\* The answer 200 whose body io.Copy did not finish writing.
CopyFailedRet ==
    [kind |-> "http", status |-> 200, cause |-> "copy failed", body |-> TRUE]

\* The context of the call goroutine p is in (resolution or open) is cancelled
\* or times out.
CancelContext(p) ==
    /\ proc[p].pc \in {"nFetch", "sOpen"}
    /\ ~proc[p].cancelled
    /\ proc' = [proc EXCEPT ![p].cancelled = TRUE]
    /\ UNCHANGED <<opt, urlMap, now, hashCache, mu, metaReqs, openReqs, originOk,
                   regLog, lastCall, nDigest>>

\* One attempt of Object.Open's pacer.Call: GET o.url, answered by resp; the
\* pacer repeats it, the file is open, or ServeFile answers 500.
ServeOpenAttempt(p) ==
    \E resp \in Responses :
        LET pr == proc[p]
            tries == pr.tries + 1
        IN /\ pr.pc = "sOpen"
           /\ openReqs' = openReqs \cup {pr.ret.url}
           /\ originOk' = (originOk /\ Healthy(resp))
           /\ proc' = [proc EXCEPT ![p] =
                 IF PacerRetries(ShouldRetryCtx(pr.cancelled, resp), tries)
                 THEN [pr EXCEPT !.tries = tries,
                                 !.bodies = Opened(pr.bodies, resp)]
                 ELSE IF pr.cancelled
                 THEN ServeFileOpenError([pr EXCEPT !.bodies = Opened(pr.bodies, resp)],
                                         OpenFailedRet("context canceled", tries))
                 ELSE IF Healthy(resp)
                 THEN [pr EXCEPT !.pc = "sOpened", !.tries = 0,
                                 !.bodies = BodiesAfterOpen(pr.bodies, resp)]
                 ELSE ServeFileOpenError(
                          [pr EXCEPT !.bodies = BodiesAfterOpen(pr.bodies, resp)],
                          HttpRet(500))]
           /\ UNCHANGED <<opt, urlMap, now, hashCache, mu, metaReqs, regLog,
                          lastCall, nDigest>>

\* ServeFile writes its answer from the open file, io.Copy for an unknown
\* size finishing or failing on the way (logged, and ServeFile returns); the
\* deferred in.Close() releases the body Open returned.
ServeBody(p) ==
    \E copied \in BOOLEAN :
        LET pr == proc[p]
        IN /\ pr.pc = "sOpened"
           /\ proc' = [proc EXCEPT ![p] =
                 Answered([pr EXCEPT !.bodies = Closed(pr.bodies)],
                          IF pr.ret.size < 0 /\ RangeOf(pr.req.header) = "" /\ ~copied
                          THEN CopyFailedRet
                          ELSE ServeFileAfterOpen(pr))]
    /\ UNCHANGED <<opt, urlMap, now, hashCache, mu, metaReqs, openReqs, originOk,
                   regLog, lastCall, nDigest>>

\* The sizes of the nodes a VFS may hand to ServeFile: unknown, empty, known.
NodeSizes == {-1, 0, 1024}

\* What h.VFS.Stat may come to: a file, a directory, a file that is being
\* written (no DirEntry), vfs.ENOENT, or another error.
StatOutcomes == {"file", "dir", "written", "ENOENT", "error"}

\* h.VFS.Stat(remote) as ServeFile sees it over any file system: any of these
\* outcomes, the file being one of an object of any size.
ServeStatAny(p) ==
    \E size \in NodeSizes, outcome \in StatOutcomes :
        LET pr == proc[p]
            e == NewEntry(U1, pr.req.header, 0, ZeroTime)
        IN /\ pr.pc = "sStat"
           /\ proc' = [proc EXCEPT ![p] =
                 Returned([pr EXCEPT !.stats = pr.stats + 1],
                          IF outcome = "file" THEN ObjRet(pr.remote, e, 0, size, now)
                          ELSE IF outcome = "ENOENT"
                          THEN ErrRet(pr.remote, NoEntry, 0, "not found")
                          ELSE [kind |-> outcome, remote |-> pr.remote])]
           /\ UNCHANGED <<opt, urlMap, now, hashCache, mu, metaReqs, openReqs,
                          originOk, regLog, lastCall, nDigest>>

ServeStep(p) ==
    \/ ServeRegister(p)
    \/ ServeStat(p)
    \/ ServeRespond(p)
    \/ ServeOpenAttempt(p)
    \/ ServeBody(p)

(***************************************************************************)
(* The HTTP surface of the standalone proxy (main.go, mainHandler).        *)
(***************************************************************************)
\* The alphabets of encoding/base64: URLEncoding and StdEncoding.
B64URL == "ABCDEFGHIJKLMNOPQRSTUVWXYZabcdefghijklmnopqrstuvwxyz0123456789-_"
B64Std == "ABCDEFGHIJKLMNOPQRSTUVWXYZabcdefghijklmnopqrstuvwxyz0123456789+/"

\* The printable ASCII characters, from byte 32 on (the grave accent, which a
\* string of the model cannot hold, is written ".").
Ascii == " !\"#$%&'()*+,-./0123456789:;<=>?@ABCDEFGHIJKLMNOPQRSTUVWXYZ[\\]^_.abcdefghijklmnopqrstuvwxyz{|}~"

\* string(byte) for the bytes of the requests modelled ("." stands for a
\* byte that is not printable ASCII).
Chr(b) == IF b \in 32..126 THEN Char(Ascii, b - 31) ELSE "."

\* Encoding.decodeMap: the 6-bit value of c plus one, 0 for a character outside
\* the alphabet.
B64Index(alphabet, c) ==
    IF \E i \in 1..64 : Char(alphabet, i) = c
    THEN CHOOSE i \in 1..64 : Char(alphabet, i) = c
    ELSE 0

Pow2(n) == IF n = 0 THEN 1 ELSE IF n = 2 THEN 4 ELSE IF n = 4 THEN 16 ELSE 64

\* The bytes of the 6-bit groups of s from position i on, acc holding nbits
\* bits not yet written.
RECURSIVE B64Bytes(_, _, _, _, _)
B64Bytes(s, i, acc, nbits, alphabet) ==
    IF i > Len(s) THEN ""
    ELSE LET a == acc * 64 + (B64Index(alphabet, Char(s, i)) - 1)
             n == nbits + 6
         IN IF n >= 8
            THEN Chr(a \div Pow2(n - 8))
                     \o B64Bytes(s, i + 1, a % Pow2(n - 8), n - 8, alphabet)
            ELSE B64Bytes(s, i + 1, a, n, alphabet)

\* Encoding.DecodeString without padding (RawURLEncoding, RawStdEncoding): a
\* character outside the alphabet, "=" included, or a lone last character is
\* a CorruptInputError.
DecodeRaw(s, alphabet) ==
    IF \/ \E i \in 1..Len(s) : B64Index(alphabet, Char(s, i)) = 0
       \/ Len(s) % 4 = 1
    THEN [ok |-> FALSE, val |-> ""]
    ELSE [ok |-> TRUE, val |-> B64Bytes(s, 1, 0, 0, alphabet)]

\* Encoding.DecodeString with padding (URLEncoding, StdEncoding): the input is
\* whole groups of four, the last one filled with one or two "=".
DecodePadded(s, alphabet) ==
    LET npad == IF Len(s) >= 2 /\ SubSeq(s, Len(s) - 1, Len(s)) = "=="
                THEN 2
                ELSE IF Len(s) >= 1 /\ Char(s, Len(s)) = "=" THEN 1 ELSE 0
    IN IF Len(s) % 4 # 0 THEN [ok |-> FALSE, val |-> ""]
       ELSE DecodeRaw(SubSeq(s, 1, Len(s) - npad), alphabet)

\* strings.TrimPrefix.
TrimPrefix(s, p) == IF HasPrefix(s, p) THEN SubSeq(s, Len(p) + 1, Len(s)) ELSE s

\* mainHandler's target: the url parameter, or else the decoded path segment
\* behind /stream/ ("" when neither decoder accepts it).
TargetOf(r) ==
    LET targetURL == Get(r.query, "url", "")
        encodedURL == TrimPrefix(r.path, "/stream/")
    IN IF targetURL = "" /\ HasPrefix(r.path, "/stream/")
       THEN IF DecodeRaw(encodedURL, B64URL).ok
            THEN DecodeRaw(encodedURL, B64URL).val
            ELSE IF DecodePadded(encodedURL, B64URL).ok
            THEN DecodePadded(encodedURL, B64URL).val
            ELSE ""
       ELSE targetURL

\* Header X-File-Size: 1024 added to the plain headers.
HSize == ("X-File-Size" :> <<"1024">>) @@ HPlain

\* The requests the proxy gets on /stream and /stream/: U1 and U2 as the url
\* parameter and as path segments in the four base64 forms, U1 with the size
\* given as parameter and as header, and requests that name no target.
NoQuery == <<>>
Inbound ==
    {[method |-> "GET", path |-> "/stream", query |-> ("url" :> U1), header |-> HPlain],
     [method |-> "HEAD", path |-> "/stream", query |-> ("url" :> U2), header |-> HPlain],
     [method |-> "GET", path |-> "/stream",
      query |-> ("url" :> U1) @@ ("size" :> "1024"), header |-> HPlain],
     [method |-> "GET", path |-> "/stream", query |-> ("url" :> U1), header |-> HSize],
     [method |-> "GET", path |-> "/stream/aHR0cHM6Ly9hLmlvL2Y_dD0x",
      query |-> NoQuery, header |-> HPlain],
     [method |-> "GET", path |-> "/stream/aHR0cHM6Ly9hLmlvL2Y/dD0x",
      query |-> NoQuery, header |-> HPlain],
     [method |-> "GET", path |-> "/stream/aHR0cHM6Ly9iLmlvL2c",
      query |-> NoQuery, header |-> HPlain],
     [method |-> "GET", path |-> "/stream/aHR0cHM6Ly9iLmlvL2c=",
      query |-> NoQuery, header |-> HPlain],
     [method |-> "GET", path |-> "/stream/a", query |-> NoQuery, header |-> HPlain],
     [method |-> "GET", path |-> "/stream/", query |-> NoQuery, header |-> HPlain],
     [method |-> "GET", path |-> "/stream", query |-> NoQuery, header |-> HPlain]}

\* The answer "Missing 'url' parameter or base64 path".
MissingTargetRet ==
    [kind |-> "http", status |-> 400, cause |-> "missing target", body |-> FALSE]

\* mainHandler(w, r): 400 without a target, handler.Serve(w, r, targetURL)
\* with one.
MainHandler(p) ==
    \E r \in Inbound :
        /\ proc[p].pc = "idle"
        /\ proc' = [proc EXCEPT ![p] =
              IF TargetOf(r) = ""
              THEN [IdleProc EXCEPT !.req = r, !.ret = MissingTargetRet]
              ELSE ServeEntry(TargetOf(r), r)]
        /\ UNCHANGED <<opt, urlMap, now, hashCache, mu, metaReqs, openReqs,
                       originOk, regLog, lastCall, nDigest>>


\* A Handler built with any of the normalization switches.
InitHash ==
    /\ opt \in [stripQuery : BOOLEAN, stripDomain : BOOLEAN, shardLevel : {1}]
    /\ urlMap = <<>>
    /\ now = 1
    /\ hashCache = <<>>
    /\ mu = [writer |-> 0, readers |-> {}]
    /\ proc = [p \in Procs |-> IdleProc]
    /\ metaReqs = <<>>
    /\ openReqs = {}
    /\ originOk = TRUE
    /\ regLog = <<>>
    /\ lastCall = NoCall
    /\ nDigest = <<>>

NextHash == \E p \in Procs : CallGetFileHash(p) \/ GetFileHashStep(p)
SpecHash == InitHash /\ [][NextHash]_vars

NextURL == ProbeGetFileHash \/ GetFileHashStep(1)
SpecURL == InitHash /\ [][NextURL]_vars

\* ServeFile on its own, called by concurrent requests over any file system.
NextServeFile ==
    \E p \in Procs :
        \/ ServeFileBegin(p)
        \/ ServeStatAny(p)
        \/ ServeRespond(p)
        \/ ServeOpenAttempt(p)
        \/ ServeBody(p)
SpecServeFile == InitHash /\ [][NextServeFile]_vars

\* The proxy: requests served one after the other through one Handler (the
\* races of concurrent requests are those of getFileHash, in SpecHash).
Next ==
    \E p \in Servers :
        \/ ServeBegin(p)
        \/ ServeFileBegin(p)
        \/ GetFileHashStep(p)
        \/ ServeStep(p)
        \/ FetchAttempt(p)
Spec == InitHash /\ [][Next]_vars

\* The standalone proxy: mainHandler and the Serve it calls.
NextMain ==
    \E p \in Servers :
        \/ MainHandler(p)
        \/ GetFileHashStep(p)
        \/ ServeStep(p)
        \/ FetchAttempt(p)
SpecMain == Init /\ [][NextMain]_vars


(***************************************************************************)
(* The Caddy module (package vfs): VFS.ServeHTTP.                          *)
(***************************************************************************)
\* The upstream of the module, and the paths and raw queries of the requests
\* it gets.
Upstream == "https://a.io"
CaddyPaths == {"/f"}
CaddyQueries == {"", "t=1"}

\* v.upstreamURL.JoinPath(r.URL.Path).String() for an upstream without a path
\* and a clean request path, with "?" and the raw query if there is one.
FullURL(upstream, path, rawQuery) ==
    upstream \o path \o (IF rawQuery # "" THEN "?" \o rawQuery ELSE "")

\* ServeHTTP hands the request to handler.Serve, through a ResponseRecorder
\* when Passthrough is set and there is a next handler.
CaddyServeHTTP(p) ==
    \E path \in CaddyPaths, rawQuery \in CaddyQueries, r \in Requests :
        /\ proc[p].pc = "idle"
        /\ proc[p].caller = "none"
        /\ proc' = [proc EXCEPT ![p] =
              [ServeEntry(FullURL(opt.upstream, path, rawQuery), r)
                  EXCEPT !.caller = "ServeHTTP"]]
        /\ UNCHANGED <<opt, urlMap, now, hashCache, mu, metaReqs, openReqs,
                       originOk, regLog, lastCall, nDigest>>

\* Serve called WriteHeader or Write on its ResponseWriter: always, except on
\* HEAD of a file, where ServeFile returns after setting the headers.
WroteHeader(ret) == ret # HttpRet(200)

\* caddyhttp.ResponseRecorder.Buffered() after Serve answered ret: the
\* recorder streams once WriteHeader saw a status that shouldBuffer declines
\* (any but 404), and counts as buffered until then.
Buffered(ret) == ~WroteHeader(ret) \/ ret.status = 404

\* What the client and the next handler saw of a request: the answer of
\* Serve, whether it was sent to the client, and the calls of next.ServeHTTP.
CaddyRet(served, sent, next) ==
    [kind |-> "caddy", served |-> served, sent |-> sent, next |-> next]

\* ServeHTTP after handler.Serve returned: with the recorder, a buffered
\* response is dropped and next.ServeHTTP(w, r) called; otherwise, and without
\* the recorder, the response has gone to the client.
CaddyReturn(p) ==
    LET pr == proc[p]
    IN /\ pr.pc = "idle"
       /\ pr.caller = "ServeHTTP"
       /\ proc' = [proc EXCEPT ![p] =
             [IdleProc EXCEPT !.ret =
                 IF opt.passthrough /\ opt.hasNext /\ Buffered(pr.ret)
                 THEN CaddyRet(pr.ret, FALSE, 1)
                 ELSE CaddyRet(pr.ret, TRUE, 0)]]
       /\ UNCHANGED <<opt, urlMap, now, hashCache, mu, metaReqs, openReqs,
                      originOk, regLog, lastCall, nDigest>>

\* A provisioned module: with or without passthrough and a next handler.
InitCaddy ==
    /\ opt \in [stripQuery : {FALSE}, stripDomain : {FALSE}, shardLevel : {1},
                upstream : {Upstream}, passthrough : BOOLEAN, hasNext : BOOLEAN]
    /\ urlMap = <<>>
    /\ now = 1
    /\ hashCache = <<>>
    /\ mu = [writer |-> 0, readers |-> {}]
    /\ proc = [p \in Procs |-> IdleProc]
    /\ metaReqs = <<>>
    /\ openReqs = {}
    /\ originOk = TRUE
    /\ regLog = <<>>
    /\ lastCall = NoCall
    /\ nDigest = <<>>

NextCaddy ==
    \E p \in Servers :
        \/ CaddyServeHTTP(p)
        \/ GetFileHashStep(p)
        \/ ServeStep(p)
        \/ FetchAttempt(p)
        \/ CaddyReturn(p)
SpecCaddy == InitCaddy /\ [][NextCaddy]_vars


\* The resolver against an origin that is down: every metadata request is
\* answered by a retryable failure. An attempt that is due is made (the pacer
\* sleeps for a bounded time and the HTTP client returns).
NextRetry ==
    \/ CallRegister(FALSE)
    \/ \E p \in Servers : CallNewObject(p)
    \/ \E p \in Servers : FetchAttemptFailing(p)
SpecRetry ==
    Init /\ [][NextRetry]_vars /\ WF_vars(\E p \in Servers : FetchAttemptFailing(p))


\* ServeFile over the link backend, with contexts that may be cancelled while
\* the resolver or Open is at work.
NextCancel ==
    \/ CallRegister(FALSE)
    \/ \E p \in Servers :
          \/ ServeFileBegin(p)
          \/ ServeStat(p)
          \/ FetchAttempt(p)
          \/ ServeRespond(p)
          \/ ServeOpenAttempt(p)
          \/ ServeBody(p)
          \/ CancelContext(p)
SpecCancel == Init /\ [][NextCancel]_vars


\* Serve over any file system: the request goes through Serve and ServeFile,
\* Stat and Open coming to any of their outcomes.
NextFacade ==
    \E p \in Servers :
        \/ ServeBegin(p)
        \/ GetFileHashStep(p)
        \/ ServeRegister(p)
        \/ ServeStatAny(p)
        \/ ServeRespond(p)
        \/ ServeOpenAttempt(p)
        \/ ServeBody(p)
SpecFacade == Init /\ [][NextFacade]_vars


(***************************************************************************)
(* Fs.List: the directory listing made up from the registry.               *)
(***************************************************************************)
\* The identifiers registered for the listings, each with its own URL, and
\* the directories listed.
ListRemotes == {"z", "ab12", "ab34"}
ListURL(remote) == "https://a.io/" \o remote
ListDirs == {"", "ab", "ab/", "ab/12", "z"}
ListLevels == 0..2

\* What ends the pacer.Call of a metadata request made by a listing.
ListResponses == {Resp200, Resp404}

\* path.Clean(dir) for a path with no empty, "." or ".." segment inside: the
\* trailing slash goes, the empty path is ".".
PathClean(dir) ==
    IF dir = "" THEN "."
    ELSE IF Len(dir) > 1 /\ Char(dir, Len(dir)) = "/" THEN SubSeq(dir, 1, Len(dir) - 1)
    ELSE dir

\* Fs.NewObject(remote) run to its end over the registry m, the pacer.Call of
\* the metadata request, if one is made, ended by resp at time t.
NewObjectResult(m, remote, resp, t) ==
    LET originalRemote == PathBase(remote)
    IN IF originalRemote \notin DOMAIN m
       THEN ErrRet(remote, NoEntry, 0, "not found")
       ELSE IF SizeKnown(m[originalRemote])
       THEN ObjRet(remote, m[originalRemote], 0, m[originalRemote].size,
                   m[originalRemote].modTime)
       ELSE FetchMetadata(remote, m[originalRemote], 1, resp, ShouldRetry(resp), t)

\* A listing that appends a directory whether or not it has it already.
AddDirAlways(acc, fullDirPath) ==
    [acc EXCEPT !.dirMap = acc.dirMap \cup {fullDirPath},
                !.entries = Append(acc.entries, [kind |-> "dir", remote |-> fullDirPath])]

\* The listing acc with the directory fullDirPath, appended unless dirMap has
\* it.
AddDir(acc, fullDirPath) ==
    IF fullDirPath \in acc.dirMap THEN acc
    ELSE [acc EXCEPT !.dirMap = acc.dirMap \cup {fullDirPath},
                     !.entries = Append(acc.entries, [kind |-> "dir", remote |-> fullDirPath])]

\* The body of the urlMap.Range callback of List for one key: the listing acc
\* afterwards.
ListKey(acc, remote, cleanDir, level, m, resp, t) ==
    LET sharded == ShardedPath(remote, level)
        objDir == IF PathDir(sharded) = "." THEN "" ELSE PathDir(sharded)
        obj == NewObjectResult(m, sharded, resp, t)
        inDir == cleanDir = "" \/ HasPrefix(sharded, cleanDir \o "/")
        relativePath == IF cleanDir = "" THEN sharded
                        ELSE SubSeq(sharded, Len(cleanDir) + 2, Len(sharded))
        subDirName == CutBefore(relativePath, "/")
    IN IF objDir = cleanDir
       THEN IF obj.kind = "obj"
            THEN [acc EXCEPT !.entries =
                     Append(acc.entries, [kind |-> "file", remote |-> sharded])]
            ELSE acc
       ELSE IF ~inDir THEN acc
       ELSE IF CountOf(relativePath, "/") = 0 THEN acc
       ELSE AddDir(acc, IF cleanDir # "" THEN cleanDir \o "/" \o subDirName
                        ELSE subDirName)

\* urlMap.Range over the keys left, in the order Range happens to take
\* (resps: what ended the metadata request of each object that needed one).
RECURSIVE ListRange(_, _, _, _, _, _, _)
ListRange(acc, keys, cleanDir, level, m, resps, t) ==
    IF keys = {} THEN acc
    ELSE LET k == CHOOSE x \in keys : TRUE
         IN ListRange(ListKey(acc, k, cleanDir, level, m, Get(resps, k, NoResp), t),
                      keys \ {k}, cleanDir, level, m, resps, t)

\* Fs.List(ctx, dir) over the registry m: the entries and the error returned
\* (kept with them for the observers: what the call was made on).
List(dir, level, m, resps, t) ==
    LET cleanDir == IF PathClean(dir) = "." THEN "" ELSE PathClean(dir)
    IN [kind |-> "list", dir |-> dir, err |-> "nil", resps |-> resps, m |-> m,
        level |-> level,
        entries |-> ListRange([entries |-> <<>>, dirMap |-> {}], DOMAIN m,
                              cleanDir, level, m, resps, t).entries]

\* The identifiers whose object a listing of dir resolves with a metadata
\* request.
ListFetches(dir, level, m) ==
    LET cleanDir == IF PathClean(dir) = "." THEN "" ELSE PathClean(dir)
    IN {k \in DOMAIN m :
           /\ (IF PathDir(ShardedPath(k, level)) = "." THEN ""
               ELSE PathDir(ShardedPath(k, level))) = cleanDir
           /\ PathBase(ShardedPath(k, level)) \in DOMAIN m
           /\ ~SizeKnown(m[PathBase(ShardedPath(k, level))])}

\* Goroutine p calls Fs.List(ctx, dir); the origin answers the metadata
\* requests of the call.
ListCall(p, dir) ==
        LET fetched == ListFetches(dir, opt.shardLevel, urlMap)
        IN \E resps \in [fetched -> ListResponses] :
              /\ proc[p].pc = "idle"
              /\ \A k \in fetched : Get(metaReqs, urlMap[k].url, 0) < MaxFetches
              /\ metaReqs' = [u \in DOMAIN metaReqs \cup {urlMap[k].url : k \in fetched} |->
                                 IF \E k \in fetched : urlMap[k].url = u
                                 THEN Get(metaReqs, u, 0) + 1 ELSE metaReqs[u]]
              /\ originOk' = (originOk /\ \A k \in fetched : Healthy(resps[k]))
              /\ proc' = [proc EXCEPT ![p] =
                    [IdleProc EXCEPT !.op = "List",
                                     !.ret = List(dir, opt.shardLevel, urlMap, resps, now)]]
              /\ UNCHANGED <<opt, urlMap, now, hashCache, mu, openReqs, regLog,
                             lastCall, nDigest>>

\* A caller (the VFS layer reading a directory) lists one of the directories.
CallList(p) == \E dir \in ListDirs : ListCall(p, dir)

\* A caller of the package registers one of the identifiers, with or without
\* a size.
CallRegisterListed ==
    \E remote \in ListRemotes, size \in Sizes :
        /\ urlMap' = (IF size = 0
                      THEN Register(urlMap, remote, ListURL(remote), HPlain)
                      ELSE RegisterWithSize(urlMap, remote, ListURL(remote), HPlain,
                                            size, now)).m
        /\ UNCHANGED <<opt, now, hashCache, mu, proc, metaReqs, openReqs, originOk,
                       regLog, lastCall, nDigest>>

\* Handlers with each of the shard levels.
InitList ==
    /\ opt \in {[stripQuery |-> FALSE, stripDomain |-> FALSE, shardLevel |-> l] :
                   l \in ListLevels}
    /\ urlMap = <<>>
    /\ now = 1
    /\ hashCache = <<>>
    /\ mu = [writer |-> 0, readers |-> {}]
    /\ proc = [p \in Procs |-> IdleProc]
    /\ metaReqs = <<>>
    /\ openReqs = {}
    /\ originOk = TRUE
    /\ regLog = <<>>
    /\ lastCall = NoCall
    /\ nDigest = <<>>

NextList ==
    \/ CallRegisterListed
    \/ \E p \in Servers : CallList(p)
SpecList == InitList /\ [][NextList]_vars


(***************************************************************************)
(* Every operation on the registry and on the objects made from it:        *)
(* registration, Stat and Open through ServeFile, List, and the mutating   *)
(* operations.                                                             *)
(***************************************************************************)
NextLifetime ==
    \/ CallRegister(FALSE)
    \/ CallRegisterWithSize(FALSE)
    \/ \E p \in Servers : ServeFileBegin(p)
    \/ \E p \in Servers : ServeStat(p)
    \/ \E p \in Servers : FetchAttempt(p)
    \/ \E p \in Servers : ServeRespond(p)
    \/ \E p \in Servers : ServeOpenAttempt(p)
    \/ \E p \in Servers : ServeBody(p)
    \/ \E p \in Servers : ListCall(p, "ab")
    \/ \E p \in Servers, op \in MutatingOps : CallMutating(p, op)
SpecLifetime == Init /\ [][NextLifetime]_vars


(***************************************************************************)
(* Concurrent Serve requests: two goroutines serve HEAD requests for the   *)
(* targets, the origin answering each metadata request at once.            *)
(***************************************************************************)
HeadRequest == [method |-> "HEAD", header |-> HPlain]

NextConcurrent ==
    \E p \in Procs :
        \/ \E targetURL \in Targets : ServeCall(p, targetURL, HeadRequest)
        \/ GetFileHashStep(p)
        \/ ServeRegister(p)
        \/ ServeStat(p)
        \/ \E resp \in {Resp200, Resp404} : FetchAttemptOf(p, resp)
        \/ ServeRespond(p)
SpecConcurrent == InitHash /\ [][NextConcurrent]_vars


(***************************************************************************)
(* The sizes of the objects of the backend: entries registered with a      *)
(* negative, a zero and a positive size, served through ServeFile, the     *)
(* origin stating the length in every way.                                 *)
(***************************************************************************)
RegisteredSizes == {-1, 0, 1024}
\* A 206 whose Content-Range has a negative total.
Resp206Negative ==
    [err |-> FALSE, status |-> 206, clen |-> 1, crange |-> "bytes 0-0/-1", lastMod |-> ZeroTime]

\* A caller of the package registers the identifier h1 with one of the sizes.
CallRegisterSized ==
    \E size \in RegisteredSizes :
        /\ urlMap' = RegisterWithSize(urlMap, "h1", U1, HPlain, size, now).m
        /\ UNCHANGED <<opt, now, hashCache, mu, proc, metaReqs, openReqs, originOk,
                       regLog, lastCall, nDigest>>

NextObject ==
    \/ CallRegisterSized
    \/ \E p \in Servers :
          \/ ServeFileBegin(p)
          \/ ServeStat(p)
          \/ \E resp \in SizeResponses \cup {Resp206Negative} : FetchAttemptOf(p, resp)
          \/ ServeRespond(p)
          \/ ServeOpenAttempt(p)
          \/ ServeBody(p)
SpecObject == Init /\ [][NextObject]_vars


(***************************************************************************)
(* NewHandler and NewFs: the shard level of the Handler and that of its    *)
(* Fs, and Stat finding the file of a key through the listings of the Fs.  *)
(***************************************************************************)
\* strconv.Atoi(s): the number and whether s is one.
Atoi(s) ==
    LET r == ScanSigned(s, 1)
    IN [ok |-> r.digits /\ r.next = Len(s) + 1, val |-> r.val]

\* An Fs that takes the default level whatever its configuration says.
NewFsDefaultLevel(m) == 1

\* NewFs: the shard level of the Fs made from the configuration m: that of a
\* non-empty shard_level (0 if it is no number), 1 without one.
NewFsShardLevel(m) ==
    IF "shard_level" \in DOMAIN m /\ m.shard_level # ""
    THEN IF Atoi(m.shard_level).ok THEN Atoi(m.shard_level).val ELSE 0
    ELSE 1

\* No remote of the name is in the rclone configuration.
NoConfig == [type |-> ""]

\* NewHandler(opt) with config the rclone configuration of the remote
\* opt.FsName: the Fs is made from it if there is one, else from the Options;
\* the Handler keeps the switches and the level of the Options.
NewHandler(o, config) ==
    LET m == [type |-> "link", shard_level |-> FormatInt(o.ShardLevel)]
    IN [stripQuery |-> o.StripQuery, stripDomain |-> o.StripDomain,
        shardLevel |-> o.ShardLevel,
        fsShardLevel |-> NewFsShardLevel(IF config # NoConfig THEN config ELSE m),
        fromOptions |-> config = NoConfig]

\* The Options handlers are made from, and the configurations found.
HandlerOptions ==
    {[StripQuery |-> FALSE, StripDomain |-> FALSE, ShardLevel |-> l] : l \in -1..3}
Configs ==
    {NoConfig, [type |-> "link"], [type |-> "link", shard_level |-> "2"],
     [type |-> "link", shard_level |-> "x"]}

InitHandler ==
    /\ opt \in {NewHandler(o, config) : o \in HandlerOptions, config \in Configs}
    /\ urlMap = <<>>
    /\ now = 1
    /\ hashCache = <<>>
    /\ mu = [writer |-> 0, readers |-> {}]
    /\ proc = [p \in Procs |-> IdleProc]
    /\ metaReqs = <<>>
    /\ openReqs = {}
    /\ originOk = TRUE
    /\ regLog = <<>>
    /\ lastCall = NoCall
    /\ nDigest = <<>>

\* Serve registers the key of one of the targets.
RegisterKey ==
    \E targetURL \in Targets :
        /\ urlMap' = Register(urlMap, ComputeHash(targetURL, opt), targetURL, HPlain).m
        /\ UNCHANGED <<opt, now, hashCache, mu, proc, metaReqs, openReqs, originOk,
                       regLog, lastCall, nDigest>>

\* h.VFS.Stat on the path Serve computes for a registered key: the VFS finds a
\* file that the Fs lists in the directory of the path (sizes are taken as
\* registered or resolved with a 200).
StatListed(p) ==
    \E key \in DOMAIN urlMap :
        LET remote == ShardedPath(key, opt.shardLevel)
            dir == IF PathDir(remote) = "." THEN "" ELSE PathDir(remote)
            listing == List(dir, opt.fsShardLevel, urlMap,
                            [k \in DOMAIN urlMap |-> Resp200], now)
        IN /\ proc' = [proc EXCEPT ![p] =
                 [IdleProc EXCEPT !.ret =
                     [kind |-> "stat", key |-> key, remote |-> remote,
                      found |-> \E i \in 1..Len(listing.entries) :
                                   listing.entries[i] = [kind |-> "file", remote |-> remote]]]]
           /\ UNCHANGED <<opt, urlMap, now, hashCache, mu, metaReqs, openReqs,
                          originOk, regLog, lastCall, nDigest>>

NextHandler == RegisterKey \/ \E p \in Procs : StatListed(p)
SpecHandler == InitHandler /\ [][NextHandler]_vars


NextRegistry == Tick \/ CallRegister(TRUE) \/ CallRegisterWithSize(TRUE)
SpecRegistry == Init /\ [][NextRegistry]_vars

NextLeaf ==
    \/ CallRegister(FALSE)
    \/ CallRegisterWithSize(FALSE)
    \/ \E p \in Procs : CallNewObjectLeaf(p)
    \/ \E p \in Procs : FetchAttempt(p)
SpecLeaf == Init /\ [][NextLeaf]_vars

NextStat ==
    \/ Tick
    \/ CallRegister(FALSE)
    \/ CallRegisterWithSize(FALSE)
    \/ \E p \in Procs : CallNewObject(p)
    \/ \E p \in Procs : FetchAttempt(p)
SpecStat == Init /\ [][NextStat]_vars

(***************************************************************************)
(* Claims about the registry, checked under SpecRegistry.                  *)
(***************************************************************************)
OnlyRegisterCalls(id) ==
    \A i \in 1..Len(regLog[id]) : regLog[id][i].op = "Register"

\* C1: in a sequence of Register calls on an identifier of the empty registry,
\* exactly the first call returns isNew = true, every later call returns false,
\* and the registry holds the entry of that identifier afterwards.
C1_RegisterIsNewOnce ==
    \A id \in DOMAIN regLog :
        OnlyRegisterCalls(id) =>
            /\ regLog[id][1].ret
            /\ \A i \in 2..Len(regLog[id]) : ~regLog[id][i].ret
            /\ id \in DOMAIN urlMap

C1_Witness ==
    \E id \in DOMAIN regLog : OnlyRegisterCalls(id) /\ Len(regLog[id]) >= 2

C3_LastWriteWins ==
    lastCall.op = "Register" =>
        Load(urlMap, lastCall.remote) = <<lastCall.url, TRUE>>

\* C4: RegisterWithSize is a full overwrite: after the call the entry of the
\* identifier has exactly the url, headers and size passed and the time of the
\* call as modTime, whatever was stored before.
C4_RegisterWithSizeOverwrites ==
    lastCall.op = "RegisterWithSize" =>
        /\ lastCall.remote \in DOMAIN urlMap
        /\ urlMap[lastCall.remote] =
               NewEntry(lastCall.url, lastCall.header, lastCall.size, lastCall.time)

(***************************************************************************)
(* Claims about NewObject and the resolver, checked under SpecStat.        *)
(***************************************************************************)
StatReturns == {proc[p].ret : p \in Procs} \ {NoRet}

\* C5 as stated: an entry stored with a size s >= 0 (0 included) makes
\* NewObject of a path with that leaf return size s and the stored modTime
\* without any upstream request.
C5_NonNegativeSizeSkipsResolver ==
    \A r \in StatReturns :
        (r.e # NoEntry /\ r.e.size >= 0) =>
            /\ r.kind = "obj"
            /\ r.size = r.e.size
            /\ r.modTime = r.e.modTime
            /\ r.tries = 0

\* C5 amended: an entry stored with a size s > 0 makes NewObject of a path with
\* that leaf return size s and the stored modTime without any upstream
\* request; the resolver runs exactly for the entries whose stored size is not
\* positive (0 is the "fetch needed" value).
C5_PositiveSizeSkipsResolver ==
    /\ \A r \in StatReturns :
          r.e # NoEntry =>
              /\ r.e = urlMap[PathBase(r.remote)]
              /\ r.e.size > 0 =>
                    /\ r.kind = "obj"
                    /\ r.size = r.e.size
                    /\ r.modTime = r.e.modTime
                    /\ r.url = r.e.url
                    /\ r.tries = 0
              /\ r.e.size <= 0 => r.tries > 0
    /\ \A p \in Procs : proc[p].pc = "nFetch" => proc[p].e.size <= 0

C5_Witness ==
    \E r \in StatReturns :
        /\ r.kind = "obj"
        /\ r.remote = "sh/h1"
        /\ r.e.size = 1024
        /\ r.size = 1024
        /\ r.tries = 0

\* C6: with a healthy origin, the stats of a registered identifier whose size
\* was not supplied cost at most one metadata request per URL, however many
\* stats there are, concurrent or one after the other.
C6_AtMostOneFetchPerURL ==
    originOk => \A u \in DOMAIN metaReqs : metaReqs[u] <= 1


(***************************************************************************)
(* Claims about getFileHash, checked under SpecHash.                       *)
(***************************************************************************)
HashReturns == {proc[p].ret : p \in Procs} \ {NoRet}

\* C7: concurrent getFileHash calls with the same raw URL all return the same
\* non-empty key, under every interleaving of their lock acquisitions, and the
\* key is the value hashCache holds for the URL afterwards.
C7_SameKeyAsCache ==
    \A r \in HashReturns :
        /\ r.key # ""
        /\ r.url \in DOMAIN hashCache
        /\ hashCache[r.url] = r.key
        /\ \A q \in HashReturns : q.url = r.url => q.key = r.key

\* Both goroutines raced: each computed the hash of the same URL and returned.
C7_Witness ==
    /\ \A p \in Procs : proc[p].ret # NoRet /\ proc[p].ret.url = U1
    /\ Get(nDigest, U1, 0) = Cardinality(Procs)

\* C8: for any number of concurrent getFileHash calls with the same raw URL
\* the normalization and digest of that URL are computed at most once.
C8_DigestAtMostOnce ==
    \A u \in DOMAIN nDigest : nDigest[u] <= 1

\* The parts of a URL as RFC 3986 splits them: what precedes the query, the
\* query on, and what follows scheme and authority up to the fragment.
BeforeQuery(u) == CutBefore(CutBefore(u, "#"), "?")
HasScheme(u) ==
    /\ IndexOf(u, ":") > 1
    /\ IndexOf(u, "/") = 0 \/ IndexOf(u, ":") < IndexOf(u, "/")
AfterScheme(u) == IF HasScheme(u) THEN CutAfter(CutBefore(u, "#"), ":") ELSE CutBefore(u, "#")
AfterAuthority(hier) ==
    IF ~HasPrefix(hier, "//") THEN hier
    ELSE IF IndexOf(BeforeQuery(SubSeq(hier, 3, Len(hier))), "/") = 0
    THEN SubSeq(hier, 3 + Len(BeforeQuery(SubSeq(hier, 3, Len(hier)))), Len(hier))
    ELSE SubSeq(hier, 2 + IndexOf(SubSeq(hier, 3, Len(hier)), "/"), Len(hier))
PathAndQuery(u) == AfterAuthority(AfterScheme(u))
DifferOnlyInQuery(u, v) ==
    /\ u # v
    /\ BeforeQuery(u) = BeforeQuery(v)
    /\ CutAfter(u, "#") = CutAfter(v, "#")
DifferOnlyInDomain(u, v) == u # v /\ PathAndQuery(u) = PathAndQuery(v)
HashInput(u) == StripURL(u, opt.stripQuery, opt.stripDomain)

\* C9: with stripQuery, two target URLs that differ only in the query get the
\* same cache key and the same sharded path; with stripDomain, two that differ
\* only in scheme, host/port, user-info or fragment get the same cache key;
\* with a switch off, URLs that differ in its component get keys computed from
\* different hash inputs.
C9_KeyStability ==
    \A u \in DOMAIN hashCache, v \in DOMAIN hashCache :
        /\ opt.stripQuery /\ DifferOnlyInQuery(u, v) =>
              /\ hashCache[u] = hashCache[v]
              /\ ShardedPath(hashCache[u], opt.shardLevel)
                    = ShardedPath(hashCache[v], opt.shardLevel)
        /\ opt.stripDomain /\ DifferOnlyInDomain(u, v) => hashCache[u] = hashCache[v]
        /\ ~opt.stripQuery /\ DifferOnlyInQuery(u, v) => HashInput(u) # HashInput(v)
        /\ ~opt.stripDomain /\ DifferOnlyInDomain(u, v) => HashInput(u) # HashInput(v)

\* C10: normalization is for hashing only. A Serve that creates the entry
\* stores its raw targetURL, every stored URL is a raw target whose cached key is
\* the identifier it is stored under, and every request the resolver or Open sends
\* upstream goes to the URL of an entry, whatever the switches are.
C10_RawURLStoredAndFetched ==
    /\ lastCall.op = "Serve" /\ lastCall.ret =>
          /\ lastCall.remote \in DOMAIN urlMap
          /\ urlMap[lastCall.remote].url = lastCall.target
    /\ \A k \in DOMAIN urlMap :
          /\ urlMap[k].url \in Targets
          /\ Get(hashCache, urlMap[k].url, "") = k
    /\ \A u \in DOMAIN metaReqs \cup openReqs :
          \E k \in DOMAIN urlMap : urlMap[k].url = u

\* With both switches on, a Serve created the entry of a URL with a query, and
\* the resolver and Open both sent their requests to it.
C10_Witness ==
    /\ opt.stripQuery /\ opt.stripDomain
    /\ lastCall.op = "Serve" /\ lastCall.ret
    /\ \E k \in DOMAIN urlMap :
          /\ urlMap[k].url \in DOMAIN metaReqs \cap openReqs
          /\ urlMap[k].url # StripURL(urlMap[k].url, TRUE, TRUE)

\* C11: Serve with an empty target URL responds 400 and does nothing else: a
\* request that entered through Serve (it has no path yet) is never carried
\* on with an empty target, and the step that answers
\* it leaves the hash cache, its lock, the registry and the requests sent
\* upstream as they were.
C11_EmptyTargetOnly400 ==
    [][\A p \in Servers :
          /\ proc[p].pc = "idle" /\ proc'[p] # proc[p]
          /\ proc'[p].url = "" /\ proc'[p].remote = ""
          => /\ proc'[p].pc = "idle"
             /\ proc'[p].ret = HttpRet(400)
             /\ UNCHANGED <<hashCache, mu, urlMap, metaReqs, openReqs, nDigest>>]_vars

\* An empty target was answered 400 by a Handler that had served a file before.
C11_Witness ==
    /\ \E p \in Servers : proc[p].pc = "idle" /\ proc[p].ret = HttpRet(400)
    /\ urlMap # <<>>
    /\ hashCache # <<>>
    /\ openReqs # {}

\* The ways a Stat fails: the identifier is not registered, or the resolver
\* ended in a terminal status, an unknown size, a transport error or
\* exhausted retries.
StatFailures == {"not found", "status", "unknown size", "transport", "retries exhausted"}

\* C12: a request whose identifier is unregistered or whose metadata
\* resolution failed is answered 404, never 200/206 and never 500, and the
\* failure goes no further: the request ends there.
C12_FailedStatIs404 ==
    [][\A p \in Servers :
          proc[p].pc = "sStatted" /\ proc[p].ret.kind = "err" =>
             /\ proc[p].ret.err \in StatFailures
             /\ proc'[p].pc = "idle"
             /\ proc'[p].ret.status = 404
             /\ UNCHANGED openReqs]_vars

\* Requests were answered 404 after the retries of the resolver ran out.
C12_Witness ==
    \E p \in Servers : proc[p].pc = "idle" /\ proc[p].ret = NotFoundRet("retries exhausted")

\* C13: a HEAD request on a resolvable target is answered with headers only:
\* it never reaches file.Open, no step of it sends a content request
\* upstream, and it ends with the 200 written from the metadata.
C13_HeadNeverOpens ==
    [][\A p \in Servers :
          proc[p].op = "Serve" /\ proc[p].req.method = "HEAD" =>
             /\ proc'[p].pc # "sOpen"
             /\ UNCHANGED openReqs
             /\ proc[p].pc = "sStatted" /\ proc[p].ret.kind = "obj" =>
                   proc'[p].pc = "idle" /\ proc'[p].ret = HttpRet(200)]_vars

\* A HEAD request was answered 200 although no content request was ever sent.
C13_Witness ==
    /\ \E p \in Servers : proc[p].pc = "idle" /\ proc[p].ret = HttpRet(200)
    /\ openReqs = {}
    /\ metaReqs # <<>>

\* A GET request with a Range header on an object of unknown size.
RangeOnUnknownSize(pr) ==
    /\ pr.op = "Serve"
    /\ pr.req.method = "GET"
    /\ RangeOf(pr.req.header) # ""
    /\ pr.ret.kind = "obj"
    /\ pr.ret.size < 0

\* C14: every GET request with a non-empty Range header whose object has an
\* unknown size (size < 0) is answered 416, with no bytes of the object.
C14_RangeOnUnknownSizeIs416 ==
    [][\A p \in Procs :
          RangeOnUnknownSize(proc[p]) /\ proc'[p].pc = "idle" =>
             proc'[p].ret = UnknownLengthRet]_vars

\* C14 as the code has it: such a request is answered 416, with no bytes of
\* the object, once file.Open has succeeded; if file.Open fails the answer is
\* 500, and no bytes of the object are written either.
C14_OpenedRangeOnUnknownSizeIs416 ==
    [][\A p \in Procs :
          RangeOnUnknownSize(proc[p]) /\ proc'[p].pc = "idle" =>
             /\ proc[p].pc \in {"sOpen", "sOpened"}
             /\ proc[p].pc = "sOpened" => proc'[p].ret = UnknownLengthRet
             /\ proc[p].pc = "sOpen" => proc'[p].ret = HttpRet(500)]_vars

\* A request was answered 416 for its Range on an unknown length.
C14_Witness ==
    \E p \in Procs : proc[p].pc = "idle" /\ proc[p].ret = UnknownLengthRet

\* C15: an attempt of the resolver is retried if and only if it ended in a
\* transport error or in one of the statuses 429, 500, 502, 503, 504, 509 (and
\* the pacer has attempts left); an attempt that ended in any other failing
\* status is the last one, and the resolution fails after it.
C15_RetryClassification ==
    [][\A p \in Procs :
          proc[p].pc = "nFetch" /\ proc'[p] # proc[p] =>
             /\ proc'[p].pc = "nFetch" =>
                   /\ proc'[p].tries = proc[p].tries + 1
                   /\ \/ proc'[p].resp.err
                      \/ proc'[p].resp.status \in {429, 500, 502, 503, 504, 509}
             /\ proc'[p].pc # "nFetch" /\ proc'[p].ret.kind = "err" =>
                   \/ /\ proc'[p].ret.err = "retries exhausted"
                      /\ proc'[p].ret.tries = MaxTries
                   \/ /\ proc'[p].ret.err = "status"
                      /\ proc'[p].ret.status \notin {200, 206, 429, 500, 502, 503, 504, 509}
                      /\ proc'[p].ret.tries = proc[p].tries + 1
                   \/ proc'[p].ret.err = "unknown size"]_vars

\* A 404 ended a resolution at its first attempt, and a resolution was retried.
C15_Witness ==
    /\ \E p \in Procs :
          /\ proc[p].ret.kind = "err" /\ proc[p].ret.err = "status"
          /\ proc[p].ret.status = 404 /\ proc[p].ret.tries = 1
    /\ \E p \in Procs : proc[p].pc = "nFetch" /\ proc[p].resp.status = 503

\* The Content-Range values of the canonical form 'bytes <start>-<end>/<total>'
\* among those the origin sends, with the total each states.
CanonicalTotal == [cr \in {"bytes 0-0/2048"} |-> 2048]

\* C16: on a 200 the size is the Content-Length; on a 206 it is the total of a
\* canonical Content-Range; and whenever no usable length can be determined
\* (a 206 with a missing or malformed Content-Range, a 200 without
\* Content-Length) the resolution fails with the unknown-size error.
C16_SizeOrUnknownSizeError ==
    \A p \in Procs :
        LET r == proc[p].resp
            ret == proc[p].ret
        IN ret # NoRet /\ r.status \in {200, 206} =>
              /\ r.status = 200 /\ r.clen >= 0 =>
                    ret.kind = "obj" /\ ret.size = r.clen
              /\ r.status = 206 /\ r.crange \in DOMAIN CanonicalTotal =>
                    ret.kind = "obj" /\ ret.size = CanonicalTotal[r.crange]
              /\ \/ r.status = 200 /\ r.clen < 0
                 \/ r.status = 206 /\ r.crange \notin DOMAIN CanonicalTotal
                 => ret.kind = "err" /\ ret.err = "unknown size"

\* C17: every mutating operation of the adapter (Put, Mkdir, Rmdir,
\* SetModTime, Remove, Update) fails with the read-only error, and none of
\* them changes the URL registry.
C17_MutatingOpsFailReadOnly ==
    [][\A p \in Procs :
          proc'[p] # proc[p] /\ proc'[p].ret.kind = "fsop" =>
             /\ proc'[p].ret.err = ErrorReadOnly
             /\ UNCHANGED urlMap]_vars

\* The final segment of a path, and what a call of NewObject that has just
\* looked its path up tells: the path, whether an entry was found, the entry.
RECURSIVE Leaf(_)
Leaf(path) ==
    IF IndexOf(path, "/") = 0 THEN path ELSE Leaf(CutAfter(path, "/"))
Lookup(pr) ==
    IF pr.pc = "nFetch" THEN [remote |-> pr.remote, found |-> TRUE, e |-> pr.e]
    ELSE [remote |-> pr.ret.remote, found |-> pr.ret.kind = "obj", e |-> pr.ret.e]
JustLookedUp(p) ==
    /\ proc[p].pc = "idle"
    /\ proc'[p] # proc[p]
    /\ proc'[p].pc = "nFetch" \/ proc'[p].ret.kind \in {"obj", "err"}

\* C18: NewObject resolves a path by its final segment only. The call finds
\* an entry exactly when the leaf is a registered identifier, the entry is the
\* one registered under the leaf whatever the directories are, and any two
\* lookups of paths with the same leaf agree on the entry, and on the URL and
\* the size they return at once.
C18_LookupByLeafOnly ==
    [][\A p \in Procs :
          JustLookedUp(p) =>
             LET l == Lookup(proc'[p])
             IN /\ l.found <=> Leaf(l.remote) \in DOMAIN urlMap
                /\ l.found => l.e = urlMap[Leaf(l.remote)]
                /\ proc'[p].pc = "idle" /\ l.found =>
                      /\ proc'[p].ret.url = urlMap[Leaf(l.remote)].url
                      /\ proc'[p].ret.size = urlMap[Leaf(l.remote)].size
                /\ \A q \in Procs \ {p} :
                      /\ proc[q].ret.kind = "obj"
                      /\ Leaf(proc[q].ret.remote) = Leaf(l.remote)
                      => /\ l.found
                         /\ l.e = proc[q].ret.e
                         /\ proc'[p].pc = "idle" =>
                               /\ proc'[p].ret.url = proc[q].ret.url
                               /\ proc[q].ret.tries = 0 =>
                                     proc'[p].ret.size = proc[q].ret.size]_vars

\* Two paths with the leaf h1 under different directories returned the same
\* object, and a path with h1 as a directory found nothing.
C18_Witness ==
    /\ proc[1].ret.kind = "obj" /\ proc[1].ret.remote = "a/b/h1"
    /\ proc[2].ret.kind = "obj" /\ proc[2].ret.remote = "sh/h1"
    /\ proc[1].ret.size = proc[2].ret.size
    /\ "h1" \in DOMAIN urlMap

\* The first depth two-character segments of key, each followed by '/'.
RECURSIVE PrefixSegments(_, _, _)
PrefixSegments(key, i, depth) ==
    IF i > depth THEN ""
    ELSE SubSeq(key, 2 * i - 1, 2 * i) \o "/" \o PrefixSegments(key, i + 1, depth)

\* C19: ShardedPath(key, depth) is depth two-character prefix segments of the
\* key followed by the key when depth > 0 and the key has at least 2*depth
\* characters, and the bare key whenever depth <= 0 or the key is shorter
\* than 2*depth characters.
C19_ShardedOrBareKey ==
    \A p \in Procs :
        LET r == proc[p].ret
        IN r.kind = "path" =>
              IF r.level > 0 /\ Len(r.key) >= 2 * r.level
              THEN r.path = PrefixSegments(r.key, 1, r.level) \o r.key
              ELSE r.path = r.key

\* '#' and the fragment of a URL, if it has one.
FragmentPart(u) == IF CutAfter(u, "#") = "" THEN "" ELSE "#" \o CutAfter(u, "#")

\* C20: for a URL that parses, StripURL with both switches off returns the
\* URL; stripQuery alone removes the query and keeps scheme, user-info, host,
\* path and fragment; stripDomain alone removes scheme, user-info, host and
\* fragment and keeps path and query; both leave the path only. A URL that
\* does not parse is returned as it is.
C20_StripURLComponents ==
    \A p \in Procs :
        LET r == proc[p].ret
        IN r.kind = "strip" =>
              IF ParseURL(r.u).err THEN r.out = r.u
              ELSE IF r.stripQuery /\ r.stripDomain
              THEN r.out = CutBefore(PathAndQuery(r.u), "?")
              ELSE IF r.stripQuery THEN r.out = BeforeQuery(r.u) \o FragmentPart(r.u)
              ELSE IF r.stripDomain THEN r.out = PathAndQuery(r.u)
              ELSE r.out = r.u

(***************************************************************************)
(* Claims about the HTTP surface, checked under SpecMain.                  *)
(***************************************************************************)
\* The request carries the file size: parameter size or header X-File-Size.
SizeHinted(r) ==
    /\ r # NoReq
    /\ \/ "size" \in DOMAIN r.query
       \/ "X-File-Size" \in DOMAIN r.header

\* C21: a request that supplies the file size (parameter size=<n> or header
\* X-File-Size: <n>) is served without a metadata fetch: the resolver is never
\* invoked for it and the origin gets no metadata request for its target.
C21_SizeHintSkipsResolver ==
    \A p \in Servers :
        SizeHinted(proc[p].req) =>
            /\ proc[p].pc # "nFetch"
            /\ Get(metaReqs, proc[p].url, 0) = 0


\* The target a path segment stands for: its decoding as URL-safe or standard
\* base64, without or with padding ("" if it is none of them).
SegmentTarget(seg) ==
    IF DecodeRaw(seg, B64URL).ok THEN DecodeRaw(seg, B64URL).val
    ELSE IF DecodePadded(seg, B64URL).ok THEN DecodePadded(seg, B64URL).val
    ELSE IF DecodeRaw(seg, B64Std).ok THEN DecodeRaw(seg, B64Std).val
    ELSE IF DecodePadded(seg, B64Std).ok THEN DecodePadded(seg, B64Std).val
    ELSE ""

\* The target a request names: its url parameter or its path segment.
NamedTarget(r) ==
    IF Get(r.query, "url", "") # "" THEN r.query["url"]
    ELSE IF HasPrefix(r.path, "/stream/")
    THEN SegmentTarget(TrimPrefix(r.path, "/stream/"))
    ELSE ""

\* C25: a target given as ?url=<target>, as a URL-safe base64 path segment or
\* as a standard base64 path segment (with or without padding) reaches
\* Handler.Serve as the same decoded string; a request that names no target
\* is answered 400 and Handler.Serve is not called.
C25_TargetExtraction ==
    \A p \in Servers :
        proc[p].req # NoReq =>
            IF NamedTarget(proc[p].req) = ""
            THEN proc[p].op = "none" /\ proc[p].ret = MissingTargetRet
            ELSE proc[p].op = "Serve" /\ proc[p].url = NamedTarget(proc[p].req)


(***************************************************************************)
(* Claims about concurrent registrations, checked under SpecRace.          *)
(***************************************************************************)
\* The calls on id that returned isNew = true.
NewCalls(id) == {i \in 1..Len(regLog[id]) : regLog[id][i].ret}

\* C22: whatever the interleaving of concurrent Register and RegisterWithSize
\* calls on an identifier, the entry of the identifier and every entry a
\* lookup got have url, headers, size and modTime of one single call, the one
\* that returned isNew = true, and exactly one call returned isNew = true.
C22_PerKeyLinearizable ==
    /\ \A id \in DOMAIN regLog :
          /\ Cardinality(NewCalls(id)) = 1
          /\ id \in DOMAIN urlMap
          /\ \A i \in NewCalls(id) : urlMap[id] = regLog[id][i].e
    /\ \A id \in DOMAIN urlMap : id \in DOMAIN regLog
    /\ \A p \in Procs :
          (proc[p].ret # NoRet /\ proc[p].ret.kind = "loaded"
               /\ proc[p].ret.e # NoEntry) =>
              \E i \in NewCalls(proc[p].ret.remote) :
                  proc[p].ret.e = regLog[proc[p].ret.remote][i].e

\* A Register and a RegisterWithSize call with different url and headers on
\* one identifier have both returned, and a lookup has seen the entry.
C22_Witness ==
    \E id \in DOMAIN regLog, p \in Procs :
        /\ Len(regLog[id]) = 2
        /\ regLog[id][1].e.url # regLog[id][2].e.url
        /\ regLog[id][1].e.header # regLog[id][2].e.header
        /\ regLog[id][1].op # regLog[id][2].op
        /\ proc[p].ret # NoRet /\ proc[p].ret.kind = "loaded"
        /\ proc[p].ret.remote = id /\ proc[p].ret.e # NoEntry


(***************************************************************************)
(* Claims about the upstream requests of the resolver and of Open, checked *)
(* under Spec.                                                             *)
(***************************************************************************)
\* C23: the body of every upstream response obtained by fetchMetadata or by
\* Open is released on every exit path: when the call has ended no body is
\* open, those of retried attempts and of rejected statuses included, except
\* the one body a successful Open handed to its caller.
C23_BodiesReleased ==
    \A p \in Servers :
        /\ proc[p].pc \in {"idle", "sStatted"} => proc[p].bodies = 0
        /\ proc[p].pc = "sOpened" => proc[p].bodies = 1


(***************************************************************************)
(* Claims about the Caddy module, checked under SpecCaddy.                 *)
(***************************************************************************)
\* C24: with Passthrough and a next handler, a request the VFS handler answers
\* 404 has the next handler invoked exactly once and nothing of the 404 sent
\* to the client, and a request with any other outcome never has the next
\* handler invoked; without Passthrough the 404 is sent and the next handler
\* is never invoked.
C24_PassthroughOn404Only ==
    \A p \in Servers :
        (proc[p].ret # NoRet /\ proc[p].ret.kind = "caddy") =>
            LET c == proc[p].ret
            IN IF opt.passthrough /\ opt.hasNext /\ c.served.status = 404
               THEN c.next = 1 /\ ~c.sent
               ELSE c.next = 0 /\ c.sent


(***************************************************************************)
(* Claims about retries, checked under SpecRetry.                          *)
(***************************************************************************)
\* The origin may still be asked as often as the call of p can ask it.
WithinFetchBound(p) ==
    Get(metaReqs, proc[p].e.url, 0) + (MaxTries - proc[p].tries) <= MaxFetches

\* The resolver gave up: an error after as many attempts as the pacer makes.
GaveUp(p) ==
    /\ proc[p].pc = "idle"
    /\ proc[p].ret.kind = "err"
    /\ proc[p].ret.err = "retries exhausted"
    /\ proc[p].ret.tries = MaxTries

\* C26: against an origin that answers every attempt with a retryable failure
\* (transport error, 429/500/502/503/504/509) the resolver never returns a
\* size, never makes more attempts than the pacer's retries, and every
\* resolution ends with an error after exactly that many attempts.
C26_ResolutionTerminates ==
    /\ [](\A p \in Servers :
            /\ proc[p].pc = "nFetch" => proc[p].tries < MaxTries
            /\ proc[p].ret # NoRet => proc[p].ret.kind # "obj"
            /\ (proc[p].ret # NoRet /\ proc[p].ret.kind = "err"
                    /\ proc[p].ret.err # "not found") => GaveUp(p))
    /\ \A p \in Servers :
          (proc[p].pc = "nFetch" /\ WithinFetchBound(p)) ~> GaveUp(p)

C26_Witness == \E p \in Servers : GaveUp(p) /\ proc[p].ret.e.url = U2


(***************************************************************************)
(* Claims about cancellation, checked under SpecCancel.                    *)
(***************************************************************************)
\* The call of p is a resolution or an open whose context is cancelled.
CancelledCall(p) == proc[p].pc \in {"nFetch", "sOpen"} /\ proc[p].cancelled

\* The call ended with the context error after tries attempts: as the error of
\* the resolver, or as the cause of the answer 500 to a failed open.
ContextErrorAfter(ret, tries) ==
    /\ ret # NoRet
    /\ "tries" \in DOMAIN ret
    /\ ret.tries = tries
    /\ IF ret.kind = "err" THEN ret.err = "context canceled"
       ELSE ret.status = 500 /\ ret.cause = "context canceled"

\* C27: once the context of a resolution or open call is cancelled or timed
\* out, the attempt that observes it is the last one: the retry predicate
\* answers no-retry and the call ends with the context error, whatever the
\* answer to that attempt and however many retries are left.
C27_CancelStopsRetrying ==
    [][\A p \in Servers :
          (CancelledCall(p) /\ proc'[p] # proc[p]) =>
              /\ proc'[p].pc \notin {"nFetch", "sOpen", "sOpened"}
              /\ ContextErrorAfter(proc'[p].ret, proc[p].tries + 1)]_vars

\* An open that was cancelled on its first attempt: it ended with retries left.
C27_Witness ==
    \E p \in Servers :
        /\ proc[p].pc = "idle"
        /\ ContextErrorAfter(proc[p].ret, 1)
        /\ proc[p].ret.kind = "http"


(***************************************************************************)
(* Claims about the course of a request, checked under SpecFacade.         *)
(***************************************************************************)
\* The stage of a request: 0 none, 1 ComputeKey (getFileHash), 2 Register,
\* 3 Stat, 4 after Stat, 5 Open, 6 the body.
Stage(pc) ==
    CASE pc = "idle" -> 0
      [] pc = "sRegister" -> 2
      [] pc = "sStat" -> 3
      [] pc = "sStatted" -> 4
      [] pc = "sOpen" -> 5
      [] pc = "sOpened" -> 6
      [] OTHER -> 1

\* The answers that carry no byte of the object.
NoBodyAnswer(ret, status) ==
    ret # NoRet /\ ret.kind = "http" /\ ret.status = status /\ ~ret.body

\* C28: every request goes through Validate, ComputeKey, Register and Stat in
\* that order and ends in one answer; an empty target is answered 400 before
\* anything else, a Stat error other than not-found 500, not-found and a node
\* that is no file 404, and a failed open after a successful Stat 500; none of
\* these answers carries bytes of the object.
C28_RequestStateMachine ==
    [][\A p \in Servers :
          proc'[p] # proc[p] =>
              LET a == Stage(proc[p].pc)
                  b == Stage(proc'[p].pc)
                  ret == proc'[p].ret
              IN /\ a = 0 => (b = 1 \/ (b = 0 /\ NoBodyAnswer(ret, 400)))
                 /\ a = 1 => b \in {1, 2}
                 /\ a = 2 => b = 3 /\ proc[p].key \in DOMAIN urlMap'
                 /\ a = 3 => b = 4
                 /\ a = 4 =>
                       \/ b = 5 /\ proc[p].ret.kind = "obj" /\ proc[p].req.method # "HEAD"
                       \/ /\ b = 0
                          /\ CASE proc[p].ret.kind = "error" -> NoBodyAnswer(ret, 500)
                               [] proc[p].ret.kind \in {"err", "dir", "written"} ->
                                      NoBodyAnswer(ret, 404)
                               [] OTHER -> /\ proc[p].req.method = "HEAD"
                                           /\ NoBodyAnswer(ret, 200)
                 /\ a = 5 => (b \in {5, 6} \/ (b = 0 /\ NoBodyAnswer(ret, 500)))
                 /\ a = 6 => b = 0 /\ ret # NoRet /\ ret.kind = "http"
                 /\ b = 0 => ret # NoRet /\ ret.kind = "http"]_vars

\* A request that was registered and whose Stat succeeded ended in 500 because
\* its open failed.
C28_Witness ==
    \E p \in Servers :
        /\ proc[p].pc = "idle"
        /\ proc[p].ret = HttpRet(500)
        /\ openReqs # {}
        /\ urlMap # <<>>


\* C29: the serving layer never retries: a request makes at most one Stat and
\* at most one file Open; a failed Stat and a failed Open are answered at once,
\* and the request ends with the copy of the body, finished or failed.
C29_ServingLayerNeverRetries ==
    [][\A p \in Servers :
          proc'[p] # proc[p] =>
              /\ proc'[p].stats <= 1
              /\ proc'[p].opens <= 1
              /\ (proc[p].pc = "sStatted" /\ proc[p].ret.kind # "obj") =>
                     proc'[p].pc = "idle" /\ proc'[p].opens = 0
              /\ (proc[p].pc = "sOpen" /\ proc'[p].pc \notin {"sOpen", "sOpened"}) =>
                     /\ proc'[p].pc = "idle"
                     /\ NoBodyAnswer(proc'[p].ret, 500)
                     /\ proc'[p].stats = 1 /\ proc'[p].opens = 1
              /\ proc[p].pc = "sOpened" =>
                     /\ proc'[p].pc = "idle"
                     /\ proc'[p].stats = 1 /\ proc'[p].opens = 1]_vars

\* A request ended when io.Copy failed on the way, after one Stat and one Open.
C29_Witness ==
    \E p \in Servers :
        /\ proc[p].pc = "idle"
        /\ proc[p].ret = CopyFailedRet
        /\ proc[p].stats = 1 /\ proc[p].opens = 1


\* C30: in every response to a request whose Stat gave a file, ServeFile has
\* set Content-Length if and only if the size of the object is not negative,
\* to that size in decimal, and has set Last-Modified to the modification
\* time, for GET and HEAD alike; the headers it set stay as they are until the
\* request ends.
C30_ContentLengthIffKnownSize ==
    [][\A p \in Servers :
          proc'[p] # proc[p] =>
              /\ (proc[p].pc = "sStatted" /\ proc[p].ret.kind = "obj") =>
                    LET h == proc'[p].wh
                        size == proc[p].ret.size
                    IN /\ "Content-Length" \in DOMAIN h <=> size >= 0
                       /\ size >= 0 =>
                             /\ ScanInt(h["Content-Length"], 1, 0).val = size
                             /\ ScanInt(h["Content-Length"], 1, 0).next
                                    = Len(h["Content-Length"]) + 1
                       /\ "Last-Modified" \in DOMAIN h
                       /\ ScanInt(h["Last-Modified"], 1, 0).val = proc[p].ret.modTime
              /\ proc[p].pc \in {"sOpen", "sOpened"} => proc'[p].wh = proc[p].wh]_vars

\* A HEAD request was answered for a file of unknown size: without
\* Content-Length and with Last-Modified.
C30_Witness ==
    \E p \in Servers :
        /\ proc[p].pc = "idle"
        /\ proc[p].ret = HttpRet(200)
        /\ DOMAIN proc[p].wh = {"Last-Modified"}



(***************************************************************************)
(* Claims about the headers of the upstream requests, checked under Spec.  *)
(***************************************************************************)
\* The names of the headers the options of an Open call set.
OptionNames(options) == {options[i][1] : i \in 1..Len(options)}

\* The headers captured at registration for the object goroutine p serves.
CapturedHeader(p) ==
    IF PathBase(proc[p].remote) \in DOMAIN urlMap
    THEN urlMap[PathBase(proc[p].remote)].header
    ELSE <<>>

\* C31: every request the resolver or Open sends for an entry carries each
\* header captured at registration with all of its values as captured, except
\* that the resolver's Range is exactly bytes=0-0 and that in Open the header
\* of a per-call option replaces the captured value of the same name.
C31_UpstreamHeaderComposition ==
    \A p \in Procs :
        /\ proc[p].pc = "nFetch" =>
              /\ "Range" \in DOMAIN proc[p].up
              /\ proc[p].up["Range"] = <<"bytes=0-0">>
              /\ \A k \in DOMAIN proc[p].e.header \ {"Range"} :
                    k \in DOMAIN proc[p].up /\ proc[p].up[k] = proc[p].e.header[k]
        /\ proc[p].pc \in {"sOpen", "sOpened"} =>
              /\ \A i \in 1..Len(proc[p].options) :
                    /\ proc[p].options[i][1] \in DOMAIN proc[p].up
                    /\ proc[p].up[proc[p].options[i][1]] = <<proc[p].options[i][2]>>
              /\ \A k \in DOMAIN CapturedHeader(p) \ OptionNames(proc[p].options) :
                    k \in DOMAIN proc[p].up /\ proc[p].up[k] = CapturedHeader(p)[k]

\* C39: an Open call made without a per-call Range option sends a request
\* that has no Range header, whatever the headers of the inbound request that
\* registered the identifier were.
C39_OpenWithoutRangeAsksWholeObject ==
    \A p \in Procs :
        (proc[p].pc \in {"sOpen", "sOpened"}
             /\ "Range" \notin OptionNames(proc[p].options)) =>
            "Range" \notin DOMAIN proc[p].up


(***************************************************************************)
(* Claims about the listing, checked under SpecList.                       *)
(***************************************************************************)
\* The directory a path lies in, "" for a path of one segment.
ParentOf(path) ==
    IF LastIndexOf(path, "/") = 0 THEN "" ELSE SubSeq(path, 1, LastIndexOf(path, "/") - 1)

\* The directories a path lies under.
DirPrefixes(path) ==
    {SubSeq(path, 1, i - 1) : i \in {j \in 1..Len(path) : Char(path, j) = "/"}}

\* The directory a listing is asked for, as a path without "." and without a
\* trailing slash.
ListedDir(dir) ==
    IF dir = "." THEN ""
    ELSE IF Len(dir) > 1 /\ Char(dir, Len(dir)) = "/" THEN SubSeq(dir, 1, Len(dir) - 1)
    ELSE dir

\* The files a listing ret has to show: the sharded paths in the directory of
\* the identifiers whose object resolves.
ExpectedFiles(ret) ==
    {ShardedPath(id, ret.level) : id \in
        {k \in DOMAIN ret.m :
            /\ ParentOf(ShardedPath(k, ret.level)) = ListedDir(ret.dir)
            /\ NewObjectResult(ret.m, ShardedPath(k, ret.level),
                               Get(ret.resps, k, NoResp), 0).kind = "obj"}}

\* The directories it has to show: the immediate sub-directories of the
\* directory that some sharded path lies under.
ExpectedDirs(ret) ==
    {d \in UNION {DirPrefixes(ShardedPath(k, ret.level)) : k \in DOMAIN ret.m} :
        ParentOf(d) = ListedDir(ret.dir)}

Listed(ret, kind) ==
    {ret.entries[i].remote : i \in {j \in 1..Len(ret.entries) : ret.entries[j].kind = kind}}

\* C32: List(dir) returns exactly one file entry for each registered
\* identifier whose sharded path has dir as its parent directory and whose
\* object resolves without error, and one directory entry, never duplicated,
\* for each distinct immediate sub-directory of dir that some registered
\* identifier's sharded path lies under; identifiers whose resolution fails
\* are left out, and List never returns an error.
C32_ListIsExactlyTheRegistryView ==
    \A p \in Procs :
        (proc[p].ret # NoRet /\ proc[p].ret.kind = "list") =>
            /\ proc[p].ret.err = "nil"
            /\ Listed(proc[p].ret, "file") = ExpectedFiles(proc[p].ret)
            /\ Listed(proc[p].ret, "dir") = ExpectedDirs(proc[p].ret)
            /\ Len(proc[p].ret.entries)
                   = Cardinality(ExpectedFiles(proc[p].ret))
                         + Cardinality(ExpectedDirs(proc[p].ret))

\* A listing of the root at shard level 1 over three identifiers: two share
\* the directory ab, shown once, and the object of the third, a file of the
\* root, did not resolve and is left out.
C32_Witness ==
    \E p \in Procs :
        /\ proc[p].ret # NoRet /\ proc[p].ret.kind = "list"
        /\ proc[p].ret.level = 1 /\ proc[p].ret.dir = ""
        /\ DOMAIN proc[p].ret.m = ListRemotes
        /\ proc[p].ret.entries = <<[kind |-> "dir", remote |-> "ab"]>>


(***************************************************************************)
(* Claims about the lifetime of the registry entries, checked under        *)
(* SpecLifetime.                                                           *)
(***************************************************************************)
\* C33: registry entries are never evicted or removed: an identifier that
\* Load finds is found in every later state, whatever registrations, stats,
\* opens, listings and rejected writes follow.
C33_EntriesNeverEvicted ==
    [][\A id \in ApiRemotes : Load(urlMap, id)[2] => Load(urlMap', id)[2]]_vars

\* Both identifiers are registered, the origin has had metadata and content
\* requests, and a write has just been rejected as read-only.
C33_Witness ==
    /\ \A id \in ApiRemotes : Load(urlMap, id)[2]
    /\ metaReqs # <<>> /\ openReqs # {}
    /\ \E p \in Procs :
          /\ proc[p].ret # NoRet /\ proc[p].ret.kind = "fsop"
          /\ proc[p].ret.err = ErrorReadOnly


\* A step of the resolver or of the adapter: a goroutine moves, or the origin
\* gets a request.
AdapterStep == proc' # proc \/ metaReqs' # metaReqs \/ openReqs' # openReqs

\* C35: the resolver and the adapter never write into the registry: stat,
\* fetchMetadata, Open and List leave every entry (url, headers, size,
\* modTime) as it is, whether resolution succeeds or fails, and a resolved
\* size is not stored back into the entry.
C35_ResolverLeavesRegistry ==
    [][AdapterStep =>
          /\ DOMAIN urlMap' = DOMAIN urlMap
          /\ \A id \in DOMAIN urlMap : urlMap'[id] = urlMap[id]]_vars

\* A Stat has resolved a size for an object whose entry was registered without
\* one, and the entry still has none.
C35_Witness ==
    \E p \in Procs :
        /\ proc[p].pc = "sStatted"
        /\ proc[p].ret.kind = "obj" /\ proc[p].ret.size > 0
        /\ PathBase(proc[p].ret.remote) \in DOMAIN urlMap
        /\ urlMap[PathBase(proc[p].ret.remote)].size = 0
        /\ metaReqs # <<>>


(***************************************************************************)
(* The hash cache over its lifetime, checked under SpecHash.               *)
(***************************************************************************)
\* C34: in every reachable state each key k of hashCache maps to the digest
\* of StripURL(k, stripQuery, stripDomain); an entry, once written, is never
\* changed or removed; and getFileHash(u) returns what the computation
\* without the cache gives, whatever calls, concurrent or not, came before.
C34_HashCacheInvariant ==
    /\ [](\A k \in DOMAIN hashCache : hashCache[k] = ComputeHash(k, opt))
    /\ [](\A r \in HashReturns : r.key = ComputeHash(r.url, opt))
    /\ [][\A k \in DOMAIN hashCache :
              k \in DOMAIN hashCache' /\ hashCache'[k] = hashCache[k]]_vars

\* The cache holds both targets, and two calls for the first of them have
\* raced, each computing the digest, and returned.
C34_Witness ==
    /\ DOMAIN hashCache = Targets
    /\ Get(nDigest, U1, 0) = 2
    /\ \A p \in Procs : proc[p].ret # NoRet /\ proc[p].ret.url = U1


(***************************************************************************)
(* Claims about concurrent requests, checked under SpecConcurrent.         *)
(***************************************************************************)
\* C36: in any interleaving of concurrent Serve requests, when a request
\* performs its Stat on ShardedPath(key, shardLevel) the registry has an entry
\* for key, so a not-found answer for a served target comes from a failed
\* metadata resolution and never from a missing registration.
C36_RegisteredBeforeStat ==
    \A p \in Procs :
        /\ (proc[p].pc = "sStat" /\ proc[p].url # "") =>
              /\ proc[p].key \in DOMAIN urlMap
              /\ proc[p].remote = ShardedPath(proc[p].key, opt.shardLevel)
        /\ (proc[p].pc = "sStatted" /\ proc[p].url # "" /\ proc[p].ret.kind = "err") =>
              /\ proc[p].ret.err # "not found"
              /\ Get(metaReqs, urlMap[proc[p].key].url, 0) > 0

\* Two requests with one key are both about to Stat: both have registered,
\* the later of them finding the entry of the other.
C36_Witness ==
    /\ \A p \in Procs : proc[p].pc = "sStat" /\ proc[p].url # ""
    /\ \A p, q \in Procs : proc[p].key = proc[q].key
    /\ lastCall # NoCall /\ lastCall.op = "Serve" /\ ~lastCall.ret


(***************************************************************************)
(* Claims about the sizes of the objects, checked under SpecObject.        *)
(***************************************************************************)
\* C37: every Object NewObject returns has a size >= 0: a registered size
\* that is zero or negative sends the call through the resolver, the resolver
\* returns an error and no object when the size it determines is negative,
\* and so ServeFile never takes its unknown-size branch (plain copy, 416 on
\* Range) for an object of this backend.
C37_ObjectSizeNeverNegative ==
    \A p \in Procs :
        /\ (proc[p].ret # NoRet /\ proc[p].ret.kind = "obj") =>
              /\ proc[p].ret.size >= 0
              /\ (proc[p].ret.e.size <= 0) = (proc[p].ret.tries > 0)
        /\ proc[p].ret \notin {UnknownLengthRet, CopyFailedRet}

\* Stat has returned an object with a size for an entry registered with a
\* negative one: the resolver was asked.
C37_Witness ==
    \E p \in Procs :
        /\ proc[p].pc = "sStatted" /\ proc[p].ret.kind = "obj"
        /\ proc[p].ret.e.size < 0
        /\ proc[p].ret.size > 0
        /\ metaReqs # <<>>


(***************************************************************************)
(* Claims about the sharded paths of Handler and Fs, checked under         *)
(* SpecHandler.                                                            *)
(***************************************************************************)
\* C38: for every key of getFileHash and every shard level the last segment
\* of ShardedPath(key, level) is the key, the path depends on key and level
\* only, and with Handler and Fs built from the same Options the path the
\* Handler stats is the path List computes for the identifier, so that the
\* registered entry is found at the path.
C38_ShardingRoundTrip ==
    \A p \in Procs :
        (proc[p].ret # NoRet /\ proc[p].ret.kind = "stat") =>
            /\ PathBase(proc[p].ret.remote) = proc[p].ret.key
            /\ \A q \in Procs :
                  (proc[q].ret # NoRet /\ proc[q].ret.kind = "stat"
                       /\ proc[q].ret.key = proc[p].ret.key) =>
                      proc[q].ret.remote = proc[p].ret.remote
            /\ opt.fromOptions =>
                  /\ proc[p].ret.remote = ShardedPath(proc[p].ret.key, opt.fsShardLevel)
                  /\ proc[p].ret.found

\* A Handler made from Options with shard level 2 has found, two
\* directories down, the file of a key it registered.
C38_Witness ==
    \E p \in Procs :
        /\ opt.fromOptions /\ opt.shardLevel = 2
        /\ proc[p].ret # NoRet /\ proc[p].ret.kind = "stat"
        /\ proc[p].ret.found
        /\ CountOf(proc[p].ret.remote, "/") = 2

====
